---------------------------- MODULE Spec2Model ----------------------------
(***************************************************************************)
(* The NEMA software GPU of hw/slate/nema.c: the register interface        *)
(* (on_nema_io_write / on_nema_io_read), the command-list loop             *)
(* (process_cl), the dispatcher (process_cmd) with the pipeline context,   *)
(* its validation and clean-up, and the pixel effect of the compositor     *)
(* and vector back ends on the destination memory.                         *)
(*                                                                         *)
(* The register write that submits a list runs process_cl to its end       *)
(* before it returns.  The model keeps the position of that loop (pc, i)   *)
(* so that the order of dispatch and of the completion interrupt can be    *)
(* stated; while pc = "process_cl" no register access is enabled, which    *)
(* is the synchronous execution of the handler.  The list block is guest   *)
(* memory mapped for reading: record i is fetched from it when the loop    *)
(* reaches i, and every index is fetched once.  Under a guest that binds   *)
(* no destination in the block the record is drawn when it is fetched      *)
(* (Spec, SpecPix, SpecLong, SpecTex); SpecCl keeps the words of the block *)
(* and fetches the record from them.                                       *)
(***************************************************************************)
EXTENDS Integers, Sequences, FiniteSets, TLC

(***************************************************************************)
(* Bounds of the model.                                                    *)
(***************************************************************************)
MaxCmds == 4
MaxSubmits == 2
SurfW == 2
SurfH == 1

(***************************************************************************)
(* Program constants (nema.h).                                             *)
(***************************************************************************)
NEMA_MAX_CMD_COUNT == 250

NEMA_REG_OP == 0
NEMA_REG_SIG == 1
NEMA_REG_OP_SUBMIT_COMMAND == 1
NEMA_REG_OP_SUBMIT_COMMAND_LIST == 2
NEMA_REG_OP_SIGNAL_RECEIVED == 3

NEMA_OP_BIND_TEX == 1
NEMA_OP_SET_CLIP == 2
NEMA_OP_SET_BLEND_BLIT == 3
NEMA_OP_SET_BLEND_FILL == 4
NEMA_OP_SET_CONST_COLOR == 5
NEMA_OP_DRAW_LINE == 6
NEMA_OP_BLIT == 7
NEMA_OP_FILL_RECT == 8
NEMA_OP_DRAW_RECT == 9
NEMA_OP_FILL_RECT_ROUNDED == 10
NEMA_OP_DRAW_RECT_ROUNDED == 11

\* typedef enum { NEMA_NOTEX, NEMA_TEX0, NEMA_TEX1, NEMA_TEX2, NEMA_TEX3 }
NEMA_NOTEX == 0
NEMA_TEX0 == 1
NEMA_TEX1 == 2
NEMA_TEX2 == 3
NEMA_TEX3 == 4

NEMA_BL_SIMPLE == 1
NEMA_BL_MASK == 2
NEMA_BL_OPA == 4

\* typedef enum { BLEND_FILL, BLEND_BLIT } blend_option_t
BLEND_FILL == 0
BLEND_BLIT == 1

\* pixman_format_code_t, as far as the device uses it
PIXMAN_a8r8g8b8 == "a8r8g8b8"
PIXMAN_a8 == "a8"

NEMA_MEM_START == 570425344
NEMA_IO_MEM_SIZE == 4096
NEMA_FB_MEM_SIZE == 2097152
NEMA_CL_MEM_SIZE == 16384
NEMA_CL_MEM_START == NEMA_MEM_START + NEMA_FB_MEM_SIZE + NEMA_IO_MEM_SIZE

\* the board's ITCM, which system_itcm_as addresses
ITCM_SIZE == 2097152

(***************************************************************************)
(* Machine arithmetic.                                                     *)
(***************************************************************************)
Pow2(n) == 2 ^ n

ToUint8(v) == v % 256

ToUint16(v) == v % 65536

ToInt16(v) == LET u == v % 65536 IN IF u >= 32768 THEN u - 65536 ELSE u

Min(a, b) == IF a < b THEN a ELSE b

Max(a, b) == IF a > b THEN a ELSE b

\* bit k (a power of two) of flags
HasBit(flags, bit) == (flags \div bit) % 2 = 1

\* C's % on a possibly negative left operand (truncation toward zero)
CRem(a, b) == IF a >= 0 THEN a % b ELSE 0 - ((0 - a) % b)

(***************************************************************************)
(* The null pointer, and the values of an absent frame.                    *)
(***************************************************************************)
NULL == [null |-> TRUE]

(***************************************************************************)
(* Guest memory.  fb is the RAM the destination surface is mapped from:    *)
(* one 32-bit word per pixel, SurfW * SurfH of them, zero after            *)
(* construction.  FB_ADDR is its guest address.  The block the command     *)
(* list lies in is RAM as well (cl_mem, at NEMA_CL_MEM_START).  A write    *)
(* mapping of any other address comes back shorter than asked.  A length   *)
(* is an unsigned 32-bit value kept as the integer with the same bits, so  *)
(* a negative one is at least 2^31.                                        *)
(***************************************************************************)
FB_ADDR == NEMA_MEM_START + NEMA_IO_MEM_SIZE

FbWords == SurfW * SurfH

FbBytes == 4 * FbWords

\* cpu_physical_memory_map(addr, &len, is_write): the length actually mapped
cpu_physical_memory_map_len(addr, len) ==
  IF addr = FB_ADDR
  THEN (IF len < 0 \/ len > FbBytes THEN FbBytes ELSE len)
  ELSE IF addr = NEMA_CL_MEM_START
  THEN (IF len < 0 \/ len > NEMA_CL_MEM_SIZE THEN NEMA_CL_MEM_SIZE ELSE len)
  ELSE 0

\* cpu_physical_memory_map: the pointer returned (a guest RAM address, or NULL)
cpu_physical_memory_map(addr, len) ==
  IF addr \in {FB_ADDR, NEMA_CL_MEM_START} /\ len # 0 THEN [ram |-> addr] ELSE NULL

(***************************************************************************)
(* A uint32_t is kept as the 32-bit two's complement integer with the same *)
(* bits (0xFFFF0000 is -65536), which is the range of the checker's        *)
(* integers; \div rounds down and % is never negative, so Chan reads the   *)
(* bytes of the word itself.  A pixel of an a8r8g8b8 image is such a word, *)
(* byte 3 its alpha.                                                       *)
(***************************************************************************)
Chan(p, k) == (p \div Pow2(8 * k)) % 256

Alpha(p) == Chan(p, 3)

Pack(a, r, g, b) ==
  ((((IF a >= 128 THEN a - 256 ELSE a) * 256 + r) * 256 + g) * 256) + b

\* column k of the long multiplication of the bytes of a and b
ColumnSum(a, b, k) ==
  LET T(j) == IF j <= k /\ k - j <= 3 THEN Chan(a, j) * Chan(b, k - j) ELSE 0
  IN  T(0) + T(1) + T(2) + T(3)

RECURSIVE Carry(_, _, _)
\* what column k of the long multiplication carries into column k + 1
Carry(a, b, k) ==
  IF k < 0 THEN 0 ELSE (ColumnSum(a, b, k) + Carry(a, b, k - 1)) \div 256

\* byte k (0 .. 7) of the product of the 32-bit words a and b
Digit(a, b, k) == (ColumnSum(a, b, k) + Carry(a, b, k - 1)) % 256

\* a * b in uint32_t arithmetic: the low four bytes of the product (the
\* product itself when both are below 2^15 and it cannot reach 2^31)
Mul32(a, b) ==
  IF a >= 0 /\ a < 32768 /\ b >= 0 /\ b < 32768
  THEN a * b
  ELSE Pack(Digit(a, b, 3), Digit(a, b, 2), Digit(a, b, 1), Digit(a, b, 0))

\* pixman's MUL_UN8: a * b / 255, rounded
MUL_UN8(a, b) == LET t == a * b + 128 IN ((t \div 256) + t) \div 256

\* pixman's ADD_UN8: saturating
ADD_UN8(a, b) == Min(255, a + b)

\* the source "in" the mask byte m
PixIn(s, m) ==
  Pack(MUL_UN8(Chan(s, 3), m), MUL_UN8(Chan(s, 2), m),
       MUL_UN8(Chan(s, 1), m), MUL_UN8(Chan(s, 0), m))

\* PIXMAN_OP_OVER of one source pixel on one destination pixel
PixOver(s, d) ==
  LET ia == 255 - Alpha(s)
  IN  Pack(ADD_UN8(Chan(s, 3), MUL_UN8(Chan(d, 3), ia)),
           ADD_UN8(Chan(s, 2), MUL_UN8(Chan(d, 2), ia)),
           ADD_UN8(Chan(s, 1), MUL_UN8(Chan(d, 1), ia)),
           ADD_UN8(Chan(s, 0), MUL_UN8(Chan(d, 0), ia)))

(***************************************************************************)
(* nema_cmd_t.                                                             *)
(***************************************************************************)
Cmd(op, addr_a, u_int_8_a, u_int_a, u_int_b, u_int_c, int_a, int_b, int_c, int_d) ==
  [op |-> op, addr_a |-> addr_a, addr_b |-> 0, u_int_8_a |-> u_int_8_a,
   u_int_a |-> u_int_a, u_int_b |-> u_int_b, u_int_c |-> u_int_c,
   int_a |-> int_a, int_b |-> int_b, int_c |-> int_c, int_d |-> int_d]

\* no record: the value of cmd outside process_cl's loop
NoCmd == Cmd(0, 0, 0, 0, 0, 0, 0, 0, 0, 0)

(***************************************************************************)
(* Images.  The data of a write-mapped image is a pointer into guest RAM   *)
(* ([ram |-> address]); the data of a read-only image is a heap buffer     *)
(* ([bytes |-> a function from byte offsets to bytes]).                    *)
(***************************************************************************)
\* pixman_image_create_bits: NULL for a row stride that is no multiple of 4
pixman_image_create_bits(format, width, height, data, stride) ==
  IF stride % 4 # 0
  THEN NULL
  ELSE [format |-> format, width |-> width, height |-> height,
        stride |-> stride, data |-> data]

\* pixman_image_create_solid_fill(qemu_pixman_color(&pf, color)): the 8-bit
\* channels of color go through 16 bits (c << 8) and back (c >> 8)
pixman_image_create_solid_fill(color) ==
  [format |-> "solid",
   color |-> Pack((Chan(color, 3) * 256) \div 256, (Chan(color, 2) * 256) \div 256,
                  (Chan(color, 1) * 256) \div 256, (Chan(color, 0) * 256) \div 256)]

\* cairo_image_surface_create_for_data(data, CAIRO_FORMAT_ARGB32, w, h, stride)
cairo_image_surface_create_for_data(data, width, height, stride) ==
  [format |-> "ARGB32", width |-> width, height |-> height,
   stride |-> stride, data |-> data]

\* length bytes read from guest memory: rd tells what it holds there, byte k
\* being rd % 256 + k * (rd \div 256) (mod 256); rd < 256 is memory that holds
\* the byte rd throughout
GuestRead(rd, length) ==
  [bytes |-> [k \in 0 .. length - 1 |-> ((rd % 256) + k * (rd \div 256)) % 256]]

InBounds(img, x, y) == x >= 0 /\ x < img.width /\ y >= 0 /\ y < img.height

\* a source pixel of an image; outside a bits image the source is transparent
SamplePixel(img, x, y) ==
  IF img.format = "solid"
  THEN img.color
  ELSE IF ~InBounds(img, x, y)
       THEN 0
       ELSE LET o == y * img.stride + 4 * x
                d == img.data.bytes
            IN  Pack(d[o + 3], d[o + 2], d[o + 1], d[o])

\* a mask byte of an a8 image (no mask: fully opaque)
SampleMask(img, x, y) ==
  IF img = NULL
  THEN 255
  ELSE IF ~InBounds(img, x, y) THEN 0 ELSE img.data.bytes[y * img.stride + x]

\* the word of fb that holds pixel (x, y) of a destination mapped at FB_ADDR
FbIndex(img, x, y) == (y * img.stride) \div 4 + x

(***************************************************************************)
(* pixman regions: a 16-bit box, x2 and y2 exclusive.                      *)
(***************************************************************************)
EmptyRegion == [x1 |-> 0, y1 |-> 0, x2 |-> 0, y2 |-> 0]

\* pixman_region_init_rect(region, x, y, width, height)
pixman_region_init_rect(x, y, width, height) ==
  LET b == [x1 |-> ToInt16(x), y1 |-> ToInt16(y),
            x2 |-> ToInt16(x + width), y2 |-> ToInt16(y + height)]
  IN  IF b.x1 < b.x2 /\ b.y1 < b.y2 THEN b ELSE EmptyRegion

RegionContains(r, x, y) == r.x1 <= x /\ x < r.x2 /\ r.y1 <= y /\ y < r.y2

\* pixman_image_set_clip_region(image, region)
pixman_image_set_clip_region(image, region) ==
  [f \in DOMAIN image \cup {"clip_region"} |->
     IF f = "clip_region" THEN region ELSE image[f]]

\* pixman_image_composite(PIXMAN_OP_OVER, src, mask, dest, src_x, src_y,
\* mask_x, mask_y, dest_x, dest_y, width, height) on the destination memory:
\* the coordinates are int16_t, the sizes uint16_t
pixman_image_composite(src, mask, dest, dest_x, dest_y, width, height, mem) ==
  LET dx == ToInt16(dest_x)
      dy == ToInt16(dest_y)
      w  == ToUint16(width)
      h  == ToUint16(height)
      Hit(x, y) == /\ x >= dx /\ x < dx + w /\ y >= dy /\ y < dy + h
                   /\ RegionContains(dest.clip_region, x, y)
      New(x, y) == PixOver(PixIn(SamplePixel(src, x - dx, y - dy),
                                 SampleMask(mask, x - dx, y - dy)),
                           mem[FbIndex(dest, x, y)])
      Cell(k) == {<<x, y>> \in (0 .. dest.width - 1) \X (0 .. dest.height - 1) :
                    FbIndex(dest, x, y) = k /\ Hit(x, y)}
  IN  [k \in DOMAIN mem |->
         IF Cell(k) = {}
         THEN mem[k]
         ELSE LET c == CHOOSE c \in Cell(k) : TRUE IN New(c[1], c[2])]

(***************************************************************************)
(* pipeline_ctx_t, and pipeline_ctx_t ctx = {0}.  rects[] is never read    *)
(* or written and is left out.                                             *)
(***************************************************************************)
\* pipeline_ctx_t ctx without its initialiser: what an earlier frame left there
StaleCtx ==
  [dest_tex |-> NULL, src_tex |-> NULL, mask_tex |-> NULL,
   dest_surface |-> NULL, src_surface |-> NULL,
   const_color |-> 0, const_color_set |-> TRUE,
   blending_mode |-> NEMA_BL_OPA, blending_option |-> BLEND_FILL]

ZeroCtx ==
  [dest_tex |-> NULL, src_tex |-> NULL, mask_tex |-> NULL,
   dest_surface |-> NULL, src_surface |-> NULL,
   const_color |-> 0, const_color_set |-> FALSE,
   blending_mode |-> 0, blending_option |-> BLEND_FILL]

\* no frame of process_cl: the value of ctx outside a submission
NoCtx == [out_of_scope |-> TRUE]

\* unmap_pixman_imgs: the three images are released and their fields nulled
unmap_pixman_imgs(ctx) ==
  [ctx EXCEPT !.dest_tex = NULL, !.mask_tex = NULL, !.src_tex = NULL]

\* clean_up_ctx without the memset: the images and surfaces are released and
\* nulled, the other fields stay
clean_up_ctx_without_memset(ctx) ==
  [unmap_pixman_imgs(ctx) EXCEPT !.dest_surface = NULL, !.src_surface = NULL]

\* clean_up_ctx that destroys the surfaces and leaves the images bound
clean_up_ctx_without_unmap(ctx) ==
  [ctx EXCEPT !.dest_surface = NULL, !.src_surface = NULL]

\* clean_up_ctx: after the release, memset(ctx, 0, sizeof(pipeline_ctx_t))
clean_up_ctx(ctx) ==
  LET released == unmap_pixman_imgs(ctx)
  IN  [f \in DOMAIN released |-> ZeroCtx[f]]

\* validate_ctx without the comparison of const_color_set with NEMA_BL_OPA
validate_ctx_without_opa(ds, ctx) ==
  LET blend_mode == ctx.blending_mode
  IN  /\ ds.has_clip_set
      /\ ctx.dest_tex # NULL
      /\ ctx.dest_surface # NULL
      /\ IF HasBit(blend_mode, NEMA_BL_MASK)
         THEN ctx.mask_tex # NULL
         ELSE ctx.mask_tex = NULL

\* validate_ctx: TRUE when it returns, FALSE when it ends in exit(EXIT_FAILURE)
validate_ctx(ds, ctx) ==
  LET blend_mode == ctx.blending_mode
  IN  /\ ds.has_clip_set
      /\ ctx.dest_tex # NULL
      /\ ctx.dest_surface # NULL
      /\ IF HasBit(blend_mode, NEMA_BL_MASK)
         THEN ctx.mask_tex # NULL
         ELSE ctx.mask_tex = NULL
      /\ IF HasBit(blend_mode, NEMA_BL_OPA)
         THEN ctx.const_color_set
         ELSE ~ctx.const_color_set

\* the result of a handler: whether it ended in exit(), and what it left
Result(fault, ds, ctx, mem) ==
  [fault |-> fault, ds |-> ds, ctx |-> ctx, mem |-> mem]

Fault(ds, ctx, mem) == Result(TRUE, ds, ctx, mem)

\* blend_opacity_if_needed that leaves a bound mask as it is
blend_opacity_if_needed_keeping_mask(ds, ctx) ==
  IF ~HasBit(ctx.blending_mode, NEMA_BL_OPA) \/ ctx.mask_tex # NULL
  THEN [fault |-> FALSE, ctx |-> ctx]
  ELSE
    LET opacity == Chan(ctx.const_color, 3)
    IN  IF ctx.dest_tex = NULL
        THEN [fault |-> TRUE, ctx |-> ctx]
        ELSE
          LET dest_width  == ctx.dest_tex.width
              dest_height == ctx.dest_tex.height
              stride == ToInt16(IF dest_width % 4 = 0
                                THEN dest_width
                                ELSE ((dest_width \div 4) + 1) * 4)
              size == dest_height * stride
              mask_data == [bytes |-> [k \in 0 .. size - 1 |-> opacity]]
          IN  [fault |-> FALSE,
               ctx |-> [ctx EXCEPT !.mask_tex =
                          pixman_image_create_bits(PIXMAN_a8, dest_width,
                            dest_height, mask_data, stride)]]

\* blend_opacity_if_needed that scales a bound mask by opacity / 255, rounded
blend_opacity_if_needed_rounding(ds, ctx) ==
  IF ~HasBit(ctx.blending_mode, NEMA_BL_OPA)
  THEN [fault |-> FALSE, ctx |-> ctx]
  ELSE
    LET opacity == Chan(ctx.const_color, 3)
    IN  IF ctx.mask_tex = NULL
        THEN IF ctx.dest_tex = NULL
             THEN [fault |-> TRUE, ctx |-> ctx]
             ELSE
               LET dest_width  == ctx.dest_tex.width
                   dest_height == ctx.dest_tex.height
                   stride == ToInt16(IF dest_width % 4 = 0
                                     THEN dest_width
                                     ELSE ((dest_width \div 4) + 1) * 4)
                   size == dest_height * stride
                   mask_data == [bytes |-> [k \in 0 .. size - 1 |-> opacity]]
               IN  [fault |-> FALSE,
                    ctx |-> [ctx EXCEPT !.mask_tex =
                               pixman_image_create_bits(PIXMAN_a8, dest_width,
                                 dest_height, mask_data, stride)]]
        ELSE
          LET size == ctx.mask_tex.stride * ctx.mask_tex.height
              data == ctx.mask_tex.data.bytes
          IN  [fault |-> FALSE,
               ctx |-> [ctx EXCEPT !.mask_tex.data =
                          [bytes |-> [k \in 0 .. size - 1 |->
                                        MUL_UN8(data[k], opacity)]]]]

\* blend_opacity_if_needed: the context with the mask the composite will use
blend_opacity_if_needed(ds, ctx) ==
  IF ~HasBit(ctx.blending_mode, NEMA_BL_OPA)
  THEN [fault |-> FALSE, ctx |-> ctx]
  ELSE
    LET opacity == Chan(ctx.const_color, 3)
    IN  IF ctx.mask_tex = NULL
        THEN IF ctx.dest_tex = NULL
             THEN [fault |-> TRUE, ctx |-> ctx]
             ELSE
               LET dest_width  == ctx.dest_tex.width
                   dest_height == ctx.dest_tex.height
                   stride == ToInt16(IF dest_width % 4 = 0
                                     THEN dest_width
                                     ELSE ((dest_width \div 4) + 1) * 4)
                   size == dest_height * stride
                   mask_data == [bytes |-> [k \in 0 .. size - 1 |-> opacity]]
               IN  [fault |-> FALSE,
                    ctx |-> [ctx EXCEPT !.mask_tex =
                               pixman_image_create_bits(PIXMAN_a8, dest_width,
                                 dest_height, mask_data, stride)]]
        ELSE
          LET size == ctx.mask_tex.stride * ctx.mask_tex.height
              data == ctx.mask_tex.data.bytes
          IN  [fault |-> FALSE,
               ctx |-> [ctx EXCEPT !.mask_tex.data =
                          [bytes |-> [k \in 0 .. size - 1 |->
                                        (data[k] * opacity) \div 256]]]]

\* execute_fill_rect that passes height and width to the composite swapped
execute_fill_rect_swapped_size(ds, cmd, ctx, mem) ==
  IF ~validate_ctx(ds, ctx)
  THEN Fault(ds, ctx, mem)
  ELSE
    LET solid_fill == pixman_image_create_solid_fill(cmd.u_int_c)
        b == blend_opacity_if_needed(ds, ctx)
    IN  IF b.fault
        THEN Fault(ds, ctx, mem)
        ELSE Result(FALSE, ds, b.ctx,
               pixman_image_composite(solid_fill, b.ctx.mask_tex,
                 pixman_image_set_clip_region(b.ctx.dest_tex, ds.pixman_clip_region),
                 cmd.int_a, cmd.int_b, cmd.u_int_b, cmd.u_int_a, mem))

\* execute_fill_rect
execute_fill_rect(ds, cmd, ctx, mem) ==
  IF ~validate_ctx(ds, ctx)
  THEN Fault(ds, ctx, mem)
  ELSE
    LET solid_fill == pixman_image_create_solid_fill(cmd.u_int_c)
        b == blend_opacity_if_needed(ds, ctx)
    IN  IF b.fault
        THEN Fault(ds, ctx, mem)
        ELSE Result(FALSE, ds, b.ctx,
               pixman_image_composite(solid_fill, b.ctx.mask_tex,
                 pixman_image_set_clip_region(b.ctx.dest_tex, ds.pixman_clip_region),
                 cmd.int_a, cmd.int_b, cmd.u_int_a, cmd.u_int_b, mem))

\* assert_not_null: TRUE when it returns
assert_not_null(ptr) == ptr # NULL

\* execute_blit
execute_blit(ds, ctx, mem) ==
  IF ~validate_ctx(ds, ctx)
  THEN Fault(ds, ctx, mem)
  ELSE IF ~assert_not_null(ctx.dest_tex) \/ ~assert_not_null(ctx.src_tex)
  THEN Fault(ds, ctx, mem)
  ELSE
    LET b == blend_opacity_if_needed(ds, ctx)
    IN  IF b.fault
        THEN Fault(ds, ctx, mem)
        ELSE Result(FALSE, ds, b.ctx,
               pixman_image_composite(b.ctx.src_tex, b.ctx.mask_tex,
                 pixman_image_set_clip_region(b.ctx.dest_tex, ds.pixman_clip_region),
                 0, 0, b.ctx.dest_tex.width, b.ctx.dest_tex.height, mem))

(***************************************************************************)
(* The vector back end.  Which pixels a stroked or filled path covers, and *)
(* how much of each, is cairo's rasteriser; the model takes the pixels     *)
(* inside the extents of the path, fully covered.  cairo_create(NULL)      *)
(* gives a context in an error state on which every call does nothing.    *)
(***************************************************************************)
\* argb32_to_cairo_color, then cairo_set_source_rgba(r, g, b, a * opacity):
\* the colour is not premultiplied, cairo premultiplies it
CairoSource(color, opacity) ==
  LET a == MUL_UN8(Chan(color, 3), opacity)
  IN  Pack(a, MUL_UN8(Chan(color, 2), a), MUL_UN8(Chan(color, 1), a),
           MUL_UN8(Chan(color, 0), a))

\* no clip on the cairo context
NoClip == [none |-> TRUE]

\* cairo_apply_clip: cairo_rectangle(cr, x, y, w, h); cairo_clip(cr)
cairo_apply_clip(region) == region

CairoClipped(clip, x, y) ==
  \/ clip = NoClip
  \/ /\ clip.x <= x /\ x < clip.x + clip.w
     /\ clip.y <= y /\ y < clip.y + clip.h

\* pixels inside the extents of the fill of the rectangle (x, y, w, h)
CoverFill(rx, ry, rw, rh, x, y) ==
  rx <= x /\ x < rx + rw /\ ry <= y /\ y < ry + rh

\* pixels inside the extents of the stroke (default line width 2.0) of the
\* outline of the rectangle (x, y, w, h)
CoverStroke(rx, ry, rw, rh, x, y) ==
  /\ CoverFill(rx - 1, ry - 1, rw + 2, rh + 2, x, y)
  /\ ~CoverFill(rx + 1, ry + 1, rw - 2, rh - 2, x, y)

\* pixels inside the extents of the stroke, lw wide with round caps, of the
\* segment (x0, y0) - (x1, y1)
CoverLine(x0, y0, x1, y1, lw, x, y) ==
  /\ lw > 0
  /\ 2 * x + 2 > 2 * Min(x0, x1) - lw /\ 2 * x < 2 * Max(x0, x1) + lw
  /\ 2 * y + 2 > 2 * Min(y0, y1) - lw /\ 2 * y < 2 * Max(y0, y1) + lw

\* the pixels inside the extents of the path a handler builds from cmd
Cover(path, cmd, x, y) ==
  CASE path = "fill" ->
         CoverFill(cmd.int_a, cmd.int_b, cmd.u_int_a, cmd.u_int_b, x, y)
    [] path = "stroke" ->
         CoverStroke(cmd.int_a, cmd.int_b, cmd.u_int_a, cmd.u_int_b, x, y)
    [] path = "line" ->
         CoverLine(cmd.int_a, cmd.int_b, cmd.int_c, cmd.int_d, cmd.u_int_a, x, y)

\* cairo_fill / cairo_stroke of source over the covered, unclipped pixels of
\* the target surface; nothing when the context was created from NULL
CairoPaint(surface, clip, path, cmd, source, mem) ==
  IF surface = NULL
  THEN mem
  ELSE
    LET Cell(k) == {<<x, y>> \in (0 .. surface.width - 1) \X (0 .. surface.height - 1) :
                      /\ FbIndex(surface, x, y) = k
                      /\ Cover(path, cmd, x, y)
                      /\ CairoClipped(clip, x, y)}
    IN  [k \in DOMAIN mem |->
           IF Cell(k) = {} THEN mem[k] ELSE PixOver(source, mem[k])]

\* cairo_prepare_source: FALSE when it ends in exit(EXIT_FAILURE)
cairo_prepare_source_ok(ctx) == ctx.mask_tex = NULL

\* cairo_prepare_source: the source it sets
cairo_prepare_source(ctx, color) ==
  IF ~HasBit(ctx.blending_mode, NEMA_BL_OPA)
  THEN CairoSource(color, 255)
  ELSE CairoSource(color, Chan(ctx.const_color, 3))

\* execute_fill_rect_rounded
execute_fill_rect_rounded(ds, cmd, ctx, mem) ==
  Result(FALSE, ds, ctx,
    CairoPaint(ctx.dest_surface, cairo_apply_clip(ds.nema_clip_region), "fill", cmd,
               CairoSource(cmd.u_int_c, 255), mem))

\* execute_draw_rect: no clip is applied
execute_draw_rect(ds, cmd, ctx, mem) ==
  Result(FALSE, ds, ctx,
    CairoPaint(ctx.dest_surface, NoClip, "stroke", cmd,
               CairoSource(cmd.u_int_c, 255), mem))

\* execute_draw_rect_rounded
execute_draw_rect_rounded(ds, cmd, ctx, mem) ==
  Result(FALSE, ds, ctx,
    CairoPaint(ctx.dest_surface, cairo_apply_clip(ds.nema_clip_region), "stroke", cmd,
               CairoSource(cmd.u_int_c, 255), mem))

\* execute_draw_line
execute_draw_line(ds, cmd, ctx, mem) ==
  IF ~cairo_prepare_source_ok(ctx)
  THEN Fault(ds, ctx, mem)
  ELSE Result(FALSE, ds, ctx,
         CairoPaint(ctx.dest_surface, cairo_apply_clip(ds.nema_clip_region), "line", cmd,
                    cairo_prepare_source(ctx, cmd.u_int_b), mem))

(***************************************************************************)
(* The surface acquirer.                                                   *)
(***************************************************************************)
\* round_mask_if_needed(mask, stride, height): NULL, or the padded copy; its
\* stride and height parameters are lv_coord_t (int16_t)
round_mask_if_needed(mask, stride_in, height_in) ==
  LET stride == ToInt16(stride_in)
      height == ToInt16(height_in)
  IN  IF CRem(stride, 4) = 0
      THEN NULL
      ELSE
        LET padding == ToUint8(CRem(4 - CRem(stride, 4), 4))
            pitch == stride + padding
        IN  [bytes |-> [k \in 0 .. pitch * height - 1 |->
                          IF k % pitch < stride
                          THEN mask.bytes[(k \div pitch) * stride + (k % pitch)]
                          ELSE 0]]

\* InItcmRange with the two ends of the range taken in
InItcmRangeInclusive(addr) == addr >= 268435456 /\ addr <= 536870912

\* the address falls in the flash range read through system_itcm_as
InItcmRange(addr) == addr > 268435456 /\ addr < 536870912

\* address_space_rw(&ds->system_itcm_as, ...): TRUE when the result is 0
address_space_rw_ok(offset, length) ==
  length >= 0 /\ offset <= ITCM_SIZE /\ length <= ITCM_SIZE - offset

\* expected_len = cmd.int_a * cmd.u_int_b: the product of an int32_t and a
\* uint32_t, which C takes in uint32_t before it widens it to hwaddr
expected_len(cmd) == Mul32(cmd.int_a, cmd.u_int_b)

\* read_tex reaches for no guest memory
NoAccess == [as |-> "none", addr |-> 0, len |-> 0]

\* the guest memory read_tex reaches for: a write mapping ("map"), a read
\* through system_itcm_as ("itcm") or a read of system memory ("system"),
\* the address in that space and the length
read_tex_access(cmd, is_write) ==
  [as |-> IF is_write THEN "map"
          ELSE IF InItcmRange(cmd.addr_a) THEN "itcm" ELSE "system",
   addr |-> IF ~is_write /\ InItcmRange(cmd.addr_a)
            THEN cmd.addr_a - 268435456
            ELSE cmd.addr_a,
   len |-> expected_len(cmd)]

\* rd tells what the two address spaces hold where a bind reads: its low 16
\* bits what system memory holds, the bits above what the ITCM holds
\* cpu_physical_memory_read(addr, data, length)
cpu_physical_memory_read(rd, length) == GuestRead(rd % 65536, length)

\* address_space_rw(&ds->system_itcm_as, offset, ..., data, length, false)
address_space_rw(rd, length) == GuestRead(rd \div 65536, length)

\* read_tex once expected_len is computed: what it does with the guest memory
\* named by access
read_tex_from(access, cmd, format, is_write, rd) ==
  LET read_len == IF is_write
                  THEN cpu_physical_memory_map_len(cmd.addr_a, access.len)
                  ELSE access.len
      mapped == CASE access.as = "map" ->
                       cpu_physical_memory_map(cmd.addr_a, access.len)
                  [] access.as = "itcm" -> address_space_rw(rd, access.len)
                  [] OTHER -> cpu_physical_memory_read(rd, access.len)
      failed == IF is_write
                THEN access.len # read_len \/ mapped = NULL
                ELSE /\ access.as = "itcm"
                     /\ ~address_space_rw_ok(access.addr, access.len)
      rounded_mask == IF format = PIXMAN_a8
                      THEN round_mask_if_needed(mapped, cmd.int_a, cmd.u_int_b)
                      ELSE NULL
      data == IF rounded_mask # NULL THEN rounded_mask ELSE mapped
      stride == IF rounded_mask # NULL
                THEN cmd.int_a + ToUint8(4 - CRem(cmd.int_a, 4))
                ELSE cmd.int_a
  IN  IF failed
      THEN [fault |-> TRUE, image |-> NULL, data |-> NULL]
      ELSE [fault |-> FALSE,
            image |-> pixman_image_create_bits(format, cmd.u_int_a, cmd.u_int_b,
                                               data, stride),
            data |-> data]

\* read_tex: [fault, image, data]
read_tex(ds, ctx, cmd, format, is_write, rd) ==
  read_tex_from(read_tex_access(cmd, is_write), cmd, format, is_write, rd)

(***************************************************************************)
(* The dispatcher.  ds is the part of NEMAState the handlers use.          *)
(***************************************************************************)
\* process_cmd, case NEMA_OP_BIND_TEX, default: "invalid tex id", exit(EXIT_FAILURE)
invalid_tex_id(ds, cmd, ctx, mem) == Fault(ds, ctx, mem)

\* bind_tex with the selectors taken as the indices in the names: 0, 1, 3
bind_tex_by_index(ds, cmd, ctx, mem, rd) ==
  CASE cmd.u_int_8_a = 0 ->
         LET t == read_tex(ds, ctx, cmd, PIXMAN_a8r8g8b8, TRUE, rd)
         IN  IF t.fault
             THEN Fault(ds, ctx, mem)
             ELSE Result(FALSE, ds,
                    [ctx EXCEPT !.dest_tex = t.image,
                                !.dest_surface = cairo_image_surface_create_for_data(
                                   t.data, cmd.u_int_a, cmd.u_int_b, cmd.int_a)],
                    mem)
    [] cmd.u_int_8_a = 1 ->
         LET t == read_tex(ds, ctx, cmd, PIXMAN_a8r8g8b8, FALSE, rd)
         IN  IF t.fault
             THEN Fault(ds, ctx, mem)
             ELSE Result(FALSE, ds, [ctx EXCEPT !.src_tex = t.image], mem)
    [] cmd.u_int_8_a = 3 ->
         LET t == read_tex(ds, ctx, cmd, PIXMAN_a8, FALSE, rd)
         IN  IF t.fault
             THEN Fault(ds, ctx, mem)
             ELSE Result(FALSE, ds, [ctx EXCEPT !.mask_tex = t.image], mem)
    [] OTHER -> invalid_tex_id(ds, cmd, ctx, mem)

\* process_cmd, case NEMA_OP_BIND_TEX
bind_tex(ds, cmd, ctx, mem, rd) ==
  CASE cmd.u_int_8_a = NEMA_TEX0 ->
         LET t == read_tex(ds, ctx, cmd, PIXMAN_a8r8g8b8, TRUE, rd)
         IN  IF t.fault
             THEN Fault(ds, ctx, mem)
             ELSE Result(FALSE, ds,
                    [ctx EXCEPT !.dest_tex = t.image,
                                !.dest_surface = cairo_image_surface_create_for_data(
                                   t.data, cmd.u_int_a, cmd.u_int_b, cmd.int_a)],
                    mem)
    [] cmd.u_int_8_a = NEMA_TEX1 ->
         LET t == read_tex(ds, ctx, cmd, PIXMAN_a8r8g8b8, FALSE, rd)
         IN  IF t.fault
             THEN Fault(ds, ctx, mem)
             ELSE Result(FALSE, ds, [ctx EXCEPT !.src_tex = t.image], mem)
    [] cmd.u_int_8_a = NEMA_TEX3 ->
         LET t == read_tex(ds, ctx, cmd, PIXMAN_a8, FALSE, rd)
         IN  IF t.fault
             THEN Fault(ds, ctx, mem)
             ELSE Result(FALSE, ds, [ctx EXCEPT !.mask_tex = t.image], mem)
    [] OTHER -> invalid_tex_id(ds, cmd, ctx, mem)

\* process_cmd, case NEMA_OP_SET_CLIP
set_clip(ds, cmd) ==
  [has_clip_set |-> TRUE,
   pixman_clip_region |->
     pixman_region_init_rect(cmd.int_a, cmd.int_b, cmd.u_int_a, cmd.u_int_b),
   nema_clip_region |->
     [x |-> cmd.int_a, y |-> cmd.int_b, w |-> cmd.u_int_a, h |-> cmd.u_int_b]]

\* a drawing case of process_cmd: the handler, then clean_up_ctx(ctx)
draw_then_clean_up(r) ==
  IF r.fault THEN r ELSE Result(FALSE, r.ds, clean_up_ctx(r.ctx), r.mem)

\* unsupported_command that skips the record instead of exiting
unsupported_command_skipped(ds, cmd, ctx, mem) == Result(FALSE, ds, ctx, mem)

\* process_cmd, default: "unsupported command", exit(EXIT_FAILURE)
unsupported_command(ds, cmd, ctx, mem) == Fault(ds, ctx, mem)

\* process_cmd
process_cmd(ds, cmd, ctx, mem, rd) ==
  CASE cmd.op = NEMA_OP_BIND_TEX -> bind_tex(ds, cmd, ctx, mem, rd)
    [] cmd.op = NEMA_OP_SET_CLIP -> Result(FALSE, set_clip(ds, cmd), ctx, mem)
    [] cmd.op = NEMA_OP_SET_BLEND_FILL ->
         Result(FALSE, ds,
                [ctx EXCEPT !.blending_option = BLEND_FILL,
                            !.blending_mode = ToUint8(cmd.u_int_a)], mem)
    [] cmd.op = NEMA_OP_SET_BLEND_BLIT ->
         Result(FALSE, ds,
                [ctx EXCEPT !.blending_option = BLEND_BLIT,
                            !.blending_mode = ToUint8(cmd.u_int_a)], mem)
    [] cmd.op = NEMA_OP_BLIT ->
         draw_then_clean_up(execute_blit(ds, ctx, mem))
    [] cmd.op = NEMA_OP_FILL_RECT ->
         draw_then_clean_up(execute_fill_rect(ds, cmd, ctx, mem))
    [] cmd.op = NEMA_OP_SET_CONST_COLOR ->
         Result(FALSE, ds,
                [ctx EXCEPT !.const_color = cmd.u_int_a,
                            !.const_color_set = TRUE], mem)
    [] cmd.op = NEMA_OP_DRAW_LINE ->
         draw_then_clean_up(execute_draw_line(ds, cmd, ctx, mem))
    [] cmd.op = NEMA_OP_FILL_RECT_ROUNDED ->
         draw_then_clean_up(execute_fill_rect_rounded(ds, cmd, ctx, mem))
    [] cmd.op = NEMA_OP_DRAW_RECT_ROUNDED ->
         draw_then_clean_up(execute_draw_rect_rounded(ds, cmd, ctx, mem))
    [] cmd.op = NEMA_OP_DRAW_RECT ->
         draw_then_clean_up(execute_draw_rect(ds, cmd, ctx, mem))
    [] OTHER -> unsupported_command(ds, cmd, ctx, mem)

(***************************************************************************)
(* State.                                                                  *)
(***************************************************************************)
VARIABLES
  pc,                 \* "idle", "process_cl" (inside the submit write), "exited"
  next_cmd_slot,      \* cl->next_cmd_slot of the list being processed
  i,                  \* process_cl's loop index
  cmd,                \* the record handed to process_cmd last (cl->list[i])
  ctx,                \* process_cl's pipeline_ctx_t
  has_clip_set,       \* NEMAState
  pixman_clip_region, \* NEMAState
  nema_clip_region,   \* NEMAState
  inst_processed,     \* level of the completion interrupt line
  fb,                 \* guest RAM at FB_ADDR, a word per pixel
  io,                 \* the register access made last
  dispatched,         \* indices handed to process_cmd in this submission, in order
  submitted,          \* submit-list writes so far
  completed,          \* lists whose loop ran to its end
  raises,             \* calls of qemu_irq_raise so far
  sub_raises,         \* calls of qemu_irq_raise since the last submit-list write
  irq_at_submit,      \* level of the line when the last submit-list write came
  cycle_const,        \* a SET_CONST_COLOR record was dispatched in this list
                      \* after its last drawing operation
  prev_ctx,           \* ctx as the handler of cmd found it
  ctx_left,           \* the process_cl that returned last left a binding, a
                      \* blend flag or a constant color in its ctx
  unreleased,         \* per role, the surfaces acquired in this submission and
                      \* not released since
  mem_read,           \* what guest memory held where cmd made the device read
  cl_mem,             \* guest RAM at NEMA_CL_MEM_START, the first ClWords words
  tex_read,           \* the guest memory read_tex reached for on behalf of cmd
  ram_disp            \* the RAM framebuffer display device (RamDisplayState)

\* the variables of the NEMA device
nema_vars ==
  <<pc, next_cmd_slot, i, cmd, ctx, has_clip_set, pixman_clip_region,
    nema_clip_region, inst_processed, fb, io, dispatched, submitted, completed,
    raises, sub_raises, irq_at_submit, cycle_const, prev_ctx, ctx_left,
    unreleased, mem_read, cl_mem, tex_read>>

vars == <<nema_vars, ram_disp>>

DS ==
  [has_clip_set |-> has_clip_set, pixman_clip_region |-> pixman_clip_region,
   nema_clip_region |-> nema_clip_region]

(***************************************************************************)
(* What the guest writes: registers, and the records of its lists.         *)
(***************************************************************************)
Offsets == {NEMA_REG_OP, NEMA_REG_SIG}

Values ==
  {NEMA_REG_OP_SUBMIT_COMMAND, NEMA_REG_OP_SUBMIT_COMMAND_LIST,
   NEMA_REG_OP_SIGNAL_RECEIVED}

\* guest RAM the model reads source and mask data from (the display RAM)
RAM_DISPLAY_DATA_ADDRESS == 562036736

\* an address at which no RAM is mapped
UNMAPPED_ADDR == NEMA_MEM_START - NEMA_IO_MEM_SIZE

FillColors == {Pack(255, 255, 0, 0)}

ConstColors == {Pack(0, 0, 0, 0), Pack(255, 0, 0, 0)}

BlendModes ==
  {NEMA_BL_SIMPLE, NEMA_BL_MASK, NEMA_BL_OPA, NEMA_BL_MASK + NEMA_BL_OPA}

\* the byte that fills the guest memory a read-only bind reads
ReadBytes == {128}

ClipRects == {<<0, 0, SurfW, SurfH>>, <<0, 0, 1, 1>>}

BindCmds ==
  {Cmd(NEMA_OP_BIND_TEX, a, NEMA_TEX0, SurfW, SurfH, 0, 4 * SurfW, 0, 0, 0) :
     a \in {FB_ADDR, UNMAPPED_ADDR}}
  \cup {Cmd(NEMA_OP_BIND_TEX, RAM_DISPLAY_DATA_ADDRESS, NEMA_TEX1, SurfW, SurfH, 0, 4 * SurfW, 0, 0, 0),
        Cmd(NEMA_OP_BIND_TEX, RAM_DISPLAY_DATA_ADDRESS, NEMA_TEX3, SurfW, SurfH, 0, SurfW, 0, 0, 0),
        Cmd(NEMA_OP_BIND_TEX, RAM_DISPLAY_DATA_ADDRESS, NEMA_TEX2, SurfW, SurfH, 0, 4 * SurfW, 0, 0, 0),
        Cmd(NEMA_OP_BIND_TEX, FB_ADDR, NEMA_NOTEX, SurfW, SurfH, 0, 4 * SurfW, 0, 0, 0)}

StateCmds ==
  {Cmd(NEMA_OP_SET_CLIP, 0, 0, r[3], r[4], 0, r[1], r[2], 0, 0) : r \in ClipRects}
  \cup {Cmd(op, 0, 0, m, 0, 0, 0, 0, 0, 0) :
          op \in {NEMA_OP_SET_BLEND_FILL, NEMA_OP_SET_BLEND_BLIT}, m \in BlendModes}
  \cup {Cmd(NEMA_OP_SET_CONST_COLOR, 0, 0, c, 0, 0, 0, 0, 0, 0) : c \in ConstColors}

DrawCmds ==
  {Cmd(NEMA_OP_DRAW_LINE, 0, 0, 1, c, 0, 0, 0, SurfW - 1, 0) : c \in FillColors}
  \cup {Cmd(NEMA_OP_BLIT, 0, 0, 0, 0, 0, 0, 0, 0, 0)}
  \cup {Cmd(op, 0, 0, SurfW, SurfH, c, 0, 0, 0, 0) :
          op \in {NEMA_OP_FILL_RECT, NEMA_OP_DRAW_RECT, NEMA_OP_FILL_RECT_ROUNDED,
                  NEMA_OP_DRAW_RECT_ROUNDED},
          c \in FillColors}

\* opcodes outside 1..11
BadCmds == {Cmd(op, 0, 0, 0, 0, 0, 0, 0, 0, 0) : op \in {0, 12}}

Cmds == BindCmds \cup StateCmds \cup DrawCmds \cup BadCmds

\* what guest memory may hold where the record makes the device read it
ReadsFor(c) ==
  IF c.op = NEMA_OP_BIND_TEX /\ c.u_int_8_a \in {NEMA_TEX1, NEMA_TEX3}
  THEN ReadBytes
  ELSE {0}

IsDrawOp(op) ==
  op \in {NEMA_OP_DRAW_LINE, NEMA_OP_BLIT, NEMA_OP_FILL_RECT, NEMA_OP_DRAW_RECT,
          NEMA_OP_FILL_RECT_ROUNDED, NEMA_OP_DRAW_RECT_ROUNDED}

(***************************************************************************)
(* The list block.  A record takes CmdWords 32-bit words of it (op, three  *)
(* bytes of padding, addr_a, addr_b, u_int_8_a, three bytes of padding,    *)
(* then the seven 32-bit fields); the guest and the host are little        *)
(* endian.  cl_mem keeps the words of the first ClRecs records.            *)
(***************************************************************************)
ClRecs == 4

\* sizeof(nema_cmd_t) / 4
CmdWords == 11

ClWords == CmdWords * ClRecs

\* the block after memory_region_init_ram
ZeroBlock == [k \in 0 .. ClWords - 1 |-> 0]

\* cl->list[index], read from the block
ClRecord(block, index) ==
  LET w(k) == block[CmdWords * index + k]
  IN  [op |-> w(0) % 256, addr_a |-> w(1), addr_b |-> w(2),
       u_int_8_a |-> w(3) % 256, u_int_a |-> w(4), u_int_b |-> w(5),
       u_int_c |-> w(6), int_a |-> w(7), int_b |-> w(8), int_c |-> w(9),
       int_d |-> w(10)]

\* word k of a record as the guest stores it
CmdWord(c, k) ==
  CASE k = 0 -> c.op
    [] k = 1 -> c.addr_a
    [] k = 2 -> c.addr_b
    [] k = 3 -> c.u_int_8_a
    [] k = 4 -> c.u_int_a
    [] k = 5 -> c.u_int_b
    [] k = 6 -> c.u_int_c
    [] k = 7 -> c.int_a
    [] k = 8 -> c.int_b
    [] k = 9 -> c.int_c
    [] OTHER -> c.int_d

\* the block in which the guest has stored the records of list (a sequence
\* of ClRecs records)
ClBlock(list) ==
  [k \in 0 .. ClWords - 1 |-> CmdWord(list[(k \div CmdWords) + 1], k % CmdWords)]

\* the destination bound in the context is a mapping of the list block
MappedOnBlock(c) ==
  c.dest_tex # NULL /\ c.dest_tex.data = [ram |-> NEMA_CL_MEM_START]

(***************************************************************************)
(* Surfaces held.  A BIND_TEX that returns has acquired one surface for    *)
(* its role (a write mapping for the destination, a heap copy for source   *)
(* and mask); unmap_pixman_imgs releases, per role, the one surface the    *)
(* context points at.  The mask blend_opacity_if_needed allocates is        *)
(* allocated and released inside one drawing case and is not counted.      *)
(***************************************************************************)
NoneUnreleased == [dest |-> 0, src |-> 0, mask |-> 0]

\* the field of the context a selector makes BIND_TEX write
RoleOf(tex) ==
  CASE tex = NEMA_TEX0 -> "dest"
    [] tex = NEMA_TEX1 -> "src"
    [] tex = NEMA_TEX3 -> "mask"
    [] OTHER -> "none"

\* read_tex returned: cpu_physical_memory_map or g_malloc gave a surface
read_tex_acquires(held, c) ==
  [role \in DOMAIN held |->
     IF role = RoleOf(c.u_int_8_a) THEN held[role] + 1 ELSE held[role]]

\* unmap_pixman_imgs: cpu_physical_memory_unmap / g_free of what is bound
unmap_pixman_imgs_releases(held, c) ==
  [dest |-> IF c.dest_tex # NULL THEN held.dest - 1 ELSE held.dest,
   src  |-> IF c.src_tex # NULL THEN held.src - 1 ELSE held.src,
   mask |-> IF c.mask_tex # NULL THEN held.mask - 1 ELSE held.mask]

(***************************************************************************)
(* The interrupt line.                                                     *)
(***************************************************************************)
\* qemu_irq_raise(ds->inst_processed): the new level
qemu_irq_raise(level) == 1

\* qemu_irq_lower(ds->inst_processed): the new level
qemu_irq_lower(level) == 0

(***************************************************************************)
(* The RAM framebuffer display device.  ram_disp holds the fields of       *)
(* RamDisplayState the handlers use (screen_size, is_updating, the level   *)
(* of update_complete_irq, display_surface as the number of the image it   *)
(* holds), the surface the console shows, whether the process runs, and    *)
(* what is observed of the device: the access made last and the numbers of *)
(* update requests written, of requests accepted, of mappings made and of  *)
(* calls of qemu_irq_raise.  The memory backend "fb_ram" the board maps at *)
(* RAM_DISPLAY_DATA_ADDRESS has FbRamBytes bytes.                          *)
(***************************************************************************)
RAM_DISPLAY_READY_SIGNAL == 0
RAM_DISPLAY_WRITE_SIGNAL == 1
RAM_DISPLAY_WRITE_OFFSET == 1

\* the update requests a guest writes at most
MaxUpdateRequests == 3

\* the size of the memory backend: a screen of 2 x 2 pixels of 4 bytes
FbRamBytes == 16

\* screen sizes (the "screensize" property): two that fit the backend and
\* one that does not
ScreenSizes == {1, 2, 3}

\* offsets and values of the accesses a guest makes to the 0x40 bytes of fb_io
DispAddrs == {0, RAM_DISPLAY_WRITE_OFFSET, 2}

DispVals == {RAM_DISPLAY_READY_SIGNAL, RAM_DISPLAY_WRITE_SIGNAL, 2}

\* the device after ram_display_realize_fn and the board's init_ram_disp
ram_display_realize_fn(size) ==
  [pc |-> "running", screen_size |-> size, is_updating |-> FALSE,
   update_complete_irq |-> 0, display_surface |-> NULL,
   console_surface |-> "placeholder",
   access |-> [kind |-> "none", addr |-> 0, val |-> 0],
   requests |-> 0, accepted |-> 0, maps |-> 0, raises |-> 0]

\* update_display_surface: exit(EXIT_FAILURE) without a screen size or when
\* the backend is shorter than the screen; else the surface gets a new image
\* over the mapping
update_display_surface(ds) ==
  IF ds.screen_size = 0
  THEN [ds EXCEPT !.pc = "exited"]
  ELSE
    LET linesize == ds.screen_size * 4
        stride == linesize
        size == stride * (ds.screen_size - 1) + linesize
        mapsize == Min(size, FbRamBytes)
    IN  IF size # mapsize
        THEN [ds EXCEPT !.pc = "exited"]
        ELSE [ds EXCEPT !.display_surface = [image |-> ds.maps + 1],
                        !.maps = ds.maps + 1]

\* ram_fb_write that maps the surface anew for a request written while one
\* is pending
ram_fb_write_remapping(ds, addr, val) ==
  IF addr = RAM_DISPLAY_WRITE_OFFSET /\ val = RAM_DISPLAY_WRITE_SIGNAL
  THEN update_display_surface(
         [ds EXCEPT !.is_updating = TRUE, !.requests = ds.requests + 1,
                    !.accepted = IF ds.is_updating THEN @ ELSE @ + 1])
  ELSE IF addr = RAM_DISPLAY_WRITE_OFFSET /\ val = RAM_DISPLAY_READY_SIGNAL
  THEN [ds EXCEPT !.update_complete_irq = qemu_irq_lower(@)]
  ELSE ds

\* ram_fb_write
ram_fb_write(ds, addr, val) ==
  IF addr = RAM_DISPLAY_WRITE_OFFSET /\ val = RAM_DISPLAY_WRITE_SIGNAL
  THEN IF ds.is_updating
       THEN [ds EXCEPT !.requests = ds.requests + 1]
       ELSE update_display_surface(
              [ds EXCEPT !.is_updating = TRUE, !.requests = ds.requests + 1,
                         !.accepted = ds.accepted + 1])
  ELSE IF addr = RAM_DISPLAY_WRITE_OFFSET /\ val = RAM_DISPLAY_READY_SIGNAL
  THEN [ds EXCEPT !.update_complete_irq = qemu_irq_lower(@)]
  ELSE ds

\* update_qemu_console: the console takes the display surface once there is
\* one (dpy_gfx_replace_surface), and is repainted in full
update_qemu_console(ds) ==
  IF ds.display_surface # NULL /\ ds.console_surface # "display_surface"
  THEN [ds EXCEPT !.console_surface = "display_surface"]
  ELSE ds

\* signal_display_update_complete
signal_display_update_complete(ds) ==
  IF ds.is_updating
  THEN [ds EXCEPT !.is_updating = FALSE,
                  !.update_complete_irq = qemu_irq_raise(@),
                  !.raises = ds.raises + 1]
  ELSE ds

\* display_update_callback that signals only when the console took a new
\* surface
display_update_callback_on_replace(ds) ==
  IF update_qemu_console(ds) # ds
  THEN signal_display_update_complete(update_qemu_console(ds))
  ELSE ds

\* display_update_callback
display_update_callback(ds) ==
  signal_display_update_complete(update_qemu_console(ds))

\* a write of the guest to fb_io
on_ram_fb_write ==
  /\ ram_disp.pc = "running"
  /\ \E addr \in DispAddrs, val \in DispVals :
       /\ (addr = RAM_DISPLAY_WRITE_OFFSET /\ val = RAM_DISPLAY_WRITE_SIGNAL)
            => ram_disp.requests < MaxUpdateRequests
       /\ ram_disp' =
            ram_fb_write([ram_disp EXCEPT !.access = [kind |-> "write", addr |-> addr,
                                                      val |-> val]], addr, val)
  /\ UNCHANGED nema_vars

\* ram_fb_read: a read of the guest from fb_io returns 0
on_ram_fb_read ==
  /\ ram_disp.pc = "running"
  /\ \E addr \in DispAddrs :
       ram_disp' = [ram_disp EXCEPT !.access = [kind |-> "read", addr |-> addr,
                                                val |-> 0]]
  /\ UNCHANGED nema_vars

\* the console asks for a repaint: console_ops.gfx_update
gfx_update ==
  /\ ram_disp.pc = "running"
  /\ ram_disp' =
       display_update_callback([ram_disp EXCEPT !.access = [kind |-> "gfx_update",
                                                            addr |-> 0, val |-> 0]])
  /\ UNCHANGED nema_vars

(***************************************************************************)
(* Init: the device after realize_fn, its state and the RAM zero-filled.   *)
(***************************************************************************)
\* the state realize_fn leaves, ram being what the guest RAM at FB_ADDR holds
\* and block what the guest RAM at NEMA_CL_MEM_START holds
realize_fn(ram, block) ==
  /\ pc = "idle"
  /\ next_cmd_slot = 0
  /\ i = 0
  /\ cmd = NoCmd
  /\ ctx = NoCtx
  /\ has_clip_set = FALSE
  /\ pixman_clip_region = EmptyRegion
  /\ nema_clip_region = [x |-> 0, y |-> 0, w |-> 0, h |-> 0]
  /\ inst_processed = 0
  /\ fb = ram
  /\ io = [kind |-> "none", offset |-> 0, val |-> 0, ret |-> 0]
  /\ dispatched = <<>>
  /\ submitted = 0
  /\ completed = 0
  /\ raises = 0
  /\ sub_raises = 0
  /\ irq_at_submit = 0
  /\ cycle_const = FALSE
  /\ prev_ctx = NoCtx
  /\ ctx_left = FALSE
  /\ unreleased = NoneUnreleased
  /\ mem_read = 0
  /\ cl_mem = block
  /\ tex_read = NoAccess

\* the board after slate_common_init: the NEMA device and the display device
slate_common_init(ram, block, size) ==
  /\ realize_fn(ram, block)
  /\ ram_disp = ram_display_realize_fn(size)

Init == slate_common_init([k \in 0 .. FbWords - 1 |-> 0], ZeroBlock, 1)

(***************************************************************************)
(* on_nema_io_write.  The submit-list write maps the list block and enters *)
(* process_cl (pipeline_ctx_t ctx = {0}; i = 0); the count the guest left  *)
(* in the block is drawn here.                                             *)
(***************************************************************************)
\* IsSubmitList that takes the reserved 'submit single command' value as well
IsSubmitListOrCommand(offset, val) ==
  offset = NEMA_REG_OP
  /\ val \in {NEMA_REG_OP_SUBMIT_COMMAND, NEMA_REG_OP_SUBMIT_COMMAND_LIST}

\* offset == NEMA_REG_OP && val == NEMA_REG_OP_SUBMIT_COMMAND_LIST
IsSubmitList(offset, val) ==
  offset = NEMA_REG_OP /\ val = NEMA_REG_OP_SUBMIT_COMMAND_LIST

\* IsSignalReceived without the test of the value written
IsSignalReceivedAnyValue(offset, val) == offset = NEMA_REG_SIG

\* offset == NEMA_REG_SIG && val == NEMA_REG_OP_SIGNAL_RECEIVED
IsSignalReceived(offset, val) ==
  offset = NEMA_REG_SIG /\ val = NEMA_REG_OP_SIGNAL_RECEIVED

\* the submit branch for a list whose next_cmd_slot is n: the block is mapped
\* and process_cl is entered
submit_command_list(n) ==
  /\ next_cmd_slot' = n
  /\ pc' = "process_cl"
  /\ ctx' = ZeroCtx
  /\ i' = 0
  /\ cmd' = NoCmd
  /\ dispatched' = <<>>
  /\ submitted' = submitted + 1
  /\ sub_raises' = 0
  /\ irq_at_submit' = inst_processed
  /\ cycle_const' = FALSE
  /\ prev_ctx' = NoCtx
  /\ unreleased' = NoneUnreleased
  /\ mem_read' = 0
  /\ tex_read' = NoAccess
  /\ UNCHANGED <<has_clip_set, pixman_clip_region, nema_clip_region,
                 inst_processed, fb, completed, raises, ctx_left, cl_mem,
                 ram_disp>>

\* io_write that does not wait for process_cl: a register write is taken
\* while a list is being processed
io_write_reentrant(counts, limit) ==
  /\ pc \in {"idle", "process_cl"}
  /\ \E offset \in Offsets, val \in Values :
       /\ io' = [kind |-> "write", offset |-> offset, val |-> val, ret |-> 0]
       /\ IF IsSubmitList(offset, val)
          THEN /\ submitted < limit
               /\ \E n \in counts : submit_command_list(n)
          ELSE IF IsSignalReceived(offset, val)
          THEN /\ inst_processed' = qemu_irq_lower(inst_processed)
               /\ UNCHANGED <<pc, next_cmd_slot, i, cmd, ctx, has_clip_set,
                              pixman_clip_region, nema_clip_region, fb, dispatched,
                              submitted, completed, raises, sub_raises,
                              irq_at_submit, cycle_const, prev_ctx, ctx_left,
                              unreleased, mem_read, cl_mem, tex_read, ram_disp>>
          ELSE UNCHANGED <<pc, next_cmd_slot, i, cmd, ctx, has_clip_set,
                           pixman_clip_region, nema_clip_region, inst_processed, fb,
                           dispatched, submitted, completed, raises, sub_raises,
                           irq_at_submit, cycle_const, prev_ctx, ctx_left,
                           unreleased, mem_read, cl_mem, tex_read, ram_disp>>

\* on_nema_io_write for a guest whose lists hold one of counts records and
\* that submits at most limit lists
io_write(counts, limit) ==
  /\ pc = "idle"
  /\ \E offset \in Offsets, val \in Values :
       /\ io' = [kind |-> "write", offset |-> offset, val |-> val, ret |-> 0]
       /\ IF IsSubmitList(offset, val)
          THEN /\ submitted < limit
               /\ \E n \in counts : submit_command_list(n)
          ELSE IF IsSignalReceived(offset, val)
          THEN /\ inst_processed' = qemu_irq_lower(inst_processed)
               /\ UNCHANGED <<pc, next_cmd_slot, i, cmd, ctx, has_clip_set,
                              pixman_clip_region, nema_clip_region, fb, dispatched,
                              submitted, completed, raises, sub_raises,
                              irq_at_submit, cycle_const, prev_ctx, ctx_left,
                              unreleased, mem_read, cl_mem, tex_read, ram_disp>>
          ELSE UNCHANGED <<pc, next_cmd_slot, i, cmd, ctx, has_clip_set,
                           pixman_clip_region, nema_clip_region, inst_processed, fb,
                           dispatched, submitted, completed, raises, sub_raises,
                           irq_at_submit, cycle_const, prev_ctx, ctx_left,
                           unreleased, mem_read, cl_mem, tex_read, ram_disp>>

on_nema_io_write == io_write(0 .. MaxCmds, MaxSubmits)

(***************************************************************************)
(* on_nema_io_read: returns 0.                                             *)
(***************************************************************************)
on_nema_io_read ==
  /\ pc = "idle"
  /\ \E offset \in Offsets :
       io' = [kind |-> "read", offset |-> offset, val |-> 0, ret |-> 0]
  /\ UNCHANGED <<pc, next_cmd_slot, i, cmd, ctx, has_clip_set, pixman_clip_region,
                 nema_clip_region, inst_processed, fb, dispatched, submitted,
                 completed, raises, sub_raises, irq_at_submit, cycle_const,
                 prev_ctx, ctx_left, unreleased, mem_read, cl_mem, tex_read, ram_disp>>

(***************************************************************************)
(* process_cl, one turn of its loop: process_cmd(ds, cl->list[i], &ctx).   *)
(* A handler that ends in exit(EXIT_FAILURE) ends the process.             *)
(***************************************************************************)
\* LoopCond with the last record left out (i + 1 < count)
LoopCondStopsEarly(index, count) == ToUint8(index) + 1 < ToUint8(count)

\* LoopCond with one record too many (i <= count)
LoopCondRunsOver(index, count) == ToUint8(index) <= ToUint8(count)

\* the loop condition, i < cl->next_cmd_slot (both uint8_t)
LoopCond(index, count) == ToUint8(index) < ToUint8(count)

\* the body of the loop for the record c found at list[i], rd being what guest
\* memory holds where the record makes the device read it
process_cl_body(c, rd) ==
  LET on_cl == MappedOnBlock(ctx)
      r == process_cmd(DS, c, ctx, IF on_cl THEN cl_mem ELSE fb, rd)
  IN  /\ cmd' = c
      /\ mem_read' = rd
      /\ tex_read' = IF c.op = NEMA_OP_BIND_TEX /\ RoleOf(c.u_int_8_a) # "none"
                     THEN read_tex_access(c, RoleOf(c.u_int_8_a) = "dest")
                     ELSE NoAccess
      /\ prev_ctx' = ctx
      /\ dispatched' = Append(dispatched, i)
      /\ ctx' = r.ctx
      /\ has_clip_set' = r.ds.has_clip_set
      /\ pixman_clip_region' = r.ds.pixman_clip_region
      /\ nema_clip_region' = r.ds.nema_clip_region
      /\ fb' = IF on_cl THEN fb ELSE r.mem
      /\ cl_mem' = IF on_cl THEN r.mem ELSE cl_mem
      /\ cycle_const' = IF r.fault THEN cycle_const
                        ELSE IF IsDrawOp(c.op) THEN FALSE
                        ELSE IF c.op = NEMA_OP_SET_CONST_COLOR THEN TRUE
                        ELSE cycle_const
      /\ unreleased' = IF r.fault THEN unreleased
                       ELSE IF c.op = NEMA_OP_BIND_TEX
                       THEN read_tex_acquires(unreleased, c)
                       ELSE IF IsDrawOp(c.op)
                       THEN unmap_pixman_imgs_releases(unreleased, ctx)
                       ELSE unreleased
      /\ IF r.fault
         THEN pc' = "exited" /\ i' = i
         ELSE pc' = pc /\ i' = ToUint8(i + 1)

process_cl_loop ==
  /\ pc = "process_cl"
  /\ LoopCond(i, next_cmd_slot)
  /\ \E c \in Cmds : \E rd \in ReadsFor(c) : process_cl_body(c, rd)
  /\ UNCHANGED <<next_cmd_slot, inst_processed, io, submitted, completed, raises,
                 sub_raises, irq_at_submit, ctx_left, ram_disp>>

(***************************************************************************)
(* process_cl after its loop: qemu_irq_raise(ds->inst_processed), and the  *)
(* submit write returns; the frame of process_cl, ctx with it, is gone.    *)
(***************************************************************************)
\* process_cl_end that raises the line only when it is low
process_cl_end_coalescing ==
  /\ pc = "process_cl"
  /\ ~LoopCond(i, next_cmd_slot)
  /\ inst_processed' = qemu_irq_raise(inst_processed)
  /\ raises' = IF inst_processed = 0 THEN raises + 1 ELSE raises
  /\ sub_raises' = IF inst_processed = 0 THEN sub_raises + 1 ELSE sub_raises
  /\ completed' = completed + 1
  /\ pc' = "idle"
  /\ ctx' = NoCtx
  /\ cmd' = NoCmd
  /\ prev_ctx' = NoCtx
  /\ ctx_left' = (ctx # ZeroCtx)
  /\ tex_read' = NoAccess
  /\ UNCHANGED <<next_cmd_slot, i, has_clip_set, pixman_clip_region,
                 nema_clip_region, fb, io, dispatched, submitted, irq_at_submit,
                 cycle_const, unreleased, mem_read, cl_mem, ram_disp>>

\* process_cl_end that takes the clip state for a part of the list's state
process_cl_end_clearing_clip ==
  /\ pc = "process_cl"
  /\ ~LoopCond(i, next_cmd_slot)
  /\ inst_processed' = qemu_irq_raise(inst_processed)
  /\ raises' = raises + 1
  /\ sub_raises' = sub_raises + 1
  /\ completed' = completed + 1
  /\ pc' = "idle"
  /\ ctx' = NoCtx
  /\ cmd' = NoCmd
  /\ prev_ctx' = NoCtx
  /\ ctx_left' = (ctx # ZeroCtx)
  /\ has_clip_set' = FALSE
  /\ pixman_clip_region' = EmptyRegion
  /\ nema_clip_region' = [x |-> 0, y |-> 0, w |-> 0, h |-> 0]
  /\ tex_read' = NoAccess
  /\ UNCHANGED <<next_cmd_slot, i, fb, io, dispatched, submitted, irq_at_submit,
                 cycle_const, unreleased, mem_read, cl_mem, ram_disp>>

process_cl_end ==
  /\ pc = "process_cl"
  /\ ~LoopCond(i, next_cmd_slot)
  /\ inst_processed' = qemu_irq_raise(inst_processed)
  /\ raises' = raises + 1
  /\ sub_raises' = sub_raises + 1
  /\ completed' = completed + 1
  /\ pc' = "idle"
  /\ ctx' = NoCtx
  /\ cmd' = NoCmd
  /\ prev_ctx' = NoCtx
  /\ ctx_left' = (ctx # ZeroCtx)
  /\ tex_read' = NoAccess
  /\ UNCHANGED <<next_cmd_slot, i, has_clip_set, pixman_clip_region,
                 nema_clip_region, fb, io, dispatched, submitted, irq_at_submit,
                 cycle_const, unreleased, mem_read, cl_mem, ram_disp>>

Next ==
  \/ on_nema_io_write
  \/ on_nema_io_read
  \/ process_cl_loop
  \/ process_cl_end

Spec == Init /\ [][Next]_vars

(***************************************************************************)
(* SpecPix: the device under a guest that paints.  The RAM of the          *)
(* destination holds arbitrary pixels at the start, and every list is a    *)
(* sequence of bind + draw cycles in the order a driver emits them:        *)
(* destination, clip (once), blend flags, constant color when the flags    *)
(* ask for opacity, mask when they ask for a mask, then a FILL_RECT, or a  *)
(* source and a BLIT.  Colors, masks and rectangles vary.                  *)
(***************************************************************************)
MaxPixCmds == 7
MaxPixSubmits == 1

\* what the destination may hold: premultiplied a8r8g8b8 words
DestPixels == {0, Pack(255, 0, 0, 255), Pack(128, 64, 0, 32)}

PixColors == {Pack(255, 255, 0, 0), Pack(255, 0, 128, 255), Pack(128, 128, 0, 0)}

\* constant colors: the top byte is the opacity
PixConsts == {Pack(0, 255, 255, 255), Pack(255, 0, 0, 0)}

PixModes ==
  {NEMA_BL_SIMPLE, NEMA_BL_SIMPLE + NEMA_BL_OPA,
   NEMA_BL_SIMPLE + NEMA_BL_MASK + NEMA_BL_OPA}

PixClips == {<<0, 0, SurfW, SurfH>>, <<1, 0, SurfW, SurfH>>}

\* rectangles of FILL_RECT: the surface, one that starts left of it, one
\* that starts inside it
PixRects == {<<0, 0, SurfW, SurfH>>, <<0 - 1, 0, SurfW + 1, SurfH>>,
             <<1, 0, SurfW, SurfH>>}

\* a mask of tight rows (stride = width), one row more than the surface
MaskH == SurfH + 1

\* a mask whose stride does not fit the 16 bits of round_mask_if_needed
WideMask == 65537

PixBindDest ==
  Cmd(NEMA_OP_BIND_TEX, FB_ADDR, NEMA_TEX0, SurfW, SurfH, 0, 4 * SurfW, 0, 0, 0)

PixBindSrc ==
  Cmd(NEMA_OP_BIND_TEX, RAM_DISPLAY_DATA_ADDRESS, NEMA_TEX1, SurfW, SurfH, 0, 4 * SurfW, 0, 0, 0)

PixBindMask ==
  {Cmd(NEMA_OP_BIND_TEX, RAM_DISPLAY_DATA_ADDRESS, NEMA_TEX3, SurfW, MaskH, 0, SurfW, 0, 0, 0),
   Cmd(NEMA_OP_BIND_TEX, RAM_DISPLAY_DATA_ADDRESS, NEMA_TEX3, WideMask, 1, 0, WideMask, 0, 0, 0)}

PixFills ==
  {Cmd(NEMA_OP_FILL_RECT, 0, 0, r[3], r[4], c, r[1], r[2], 0, 0) :
     r \in PixRects, c \in PixColors}

\* the mask data of an acquired mask ends before its last row does: drawing
\* with it reads outside the buffer
MaskShort(m) ==
  m # NULL /\ (m.height * m.stride - 1) \notin DOMAIN m.data.bytes

\* the records a painting guest puts next, given what its list has set up
PixFollow(ds, c) ==
  IF c.dest_tex = NULL
    THEN {PixBindDest}
  ELSE IF ~ds.has_clip_set
    THEN {Cmd(NEMA_OP_SET_CLIP, 0, 0, r[3], r[4], 0, r[1], r[2], 0, 0) : r \in PixClips}
  ELSE IF c.blending_mode = 0
    THEN {Cmd(NEMA_OP_SET_BLEND_FILL, 0, 0, m, 0, 0, 0, 0, 0, 0) : m \in PixModes}
  ELSE IF HasBit(c.blending_mode, NEMA_BL_OPA) /\ ~c.const_color_set
    THEN {Cmd(NEMA_OP_SET_CONST_COLOR, 0, 0, k, 0, 0, 0, 0, 0, 0) : k \in PixConsts}
  ELSE IF HasBit(c.blending_mode, NEMA_BL_MASK) /\ c.mask_tex = NULL
    THEN PixBindMask
  ELSE IF MaskShort(c.mask_tex)
    THEN BadCmds
  ELSE IF c.src_tex = NULL
    THEN PixFills \cup {PixBindSrc}
  ELSE {Cmd(NEMA_OP_BLIT, 0, 0, 0, 0, 0, 0, 0, 0, 0)}

\* what the guest memory a bind reads may hold: opaque white or a
\* half-transparent gray for a source, full coverage or a ramp for a mask
PixReadsFor(c) ==
  IF c.op = NEMA_OP_BIND_TEX /\ c.u_int_8_a = NEMA_TEX1 THEN {255, 128}
  ELSE IF c.op = NEMA_OP_BIND_TEX /\ c.u_int_8_a = NEMA_TEX3 THEN {255, 16 + 256 * 40}
  ELSE {0}

InitPix ==
  \E ram \in [0 .. FbWords - 1 -> DestPixels] : slate_common_init(ram, ZeroBlock, 1)

on_nema_io_write_pix == io_write(4 .. MaxPixCmds, MaxPixSubmits)

process_cl_loop_pix ==
  /\ pc = "process_cl"
  /\ LoopCond(i, next_cmd_slot)
  /\ \E c \in PixFollow(DS, ctx) : \E rd \in PixReadsFor(c) : process_cl_body(c, rd)
  /\ UNCHANGED <<next_cmd_slot, inst_processed, io, submitted, completed, raises,
                 sub_raises, irq_at_submit, ctx_left, ram_disp>>

NextPix ==
  \/ on_nema_io_write_pix
  \/ on_nema_io_read
  \/ process_cl_loop_pix
  \/ process_cl_end

SpecPix == InitPix /\ [][NextPix]_vars

(***************************************************************************)
(* SpecLong: the device under a guest whose lists are long.  The count the *)
(* guest leaves in next_cmd_slot is any byte; the records are              *)
(* SET_CONST_COLOR records, so that a list runs as far as the loop takes   *)
(* it.  list[] has NEMA_MAX_CMD_COUNT elements: cl->list[i] for a larger i *)
(* is a read beyond the array, in the bytes of the block that follow it,   *)
(* the first of which is next_cmd_slot itself.                             *)
(***************************************************************************)
MaxLongSubmits == 1

\* the counts of the guest's lists
LongCounts == {NEMA_MAX_CMD_COUNT - 1, NEMA_MAX_CMD_COUNT, NEMA_MAX_CMD_COUNT + 1, 255}

LongCmds ==
  {Cmd(NEMA_OP_SET_CONST_COLOR, 0, 0, c, 0, 0, 0, 0, 0, 0) : c \in ConstColors}

\* what a read of cl->list[i], i >= NEMA_MAX_CMD_COUNT, may give for a list
\* of count n: the record whose op byte is the count (the layout of
\* nema_cmdlist_t), or whatever else the bytes read hold
BeyondCmds(n) ==
  {Cmd(n, 0, 0, 0, 0, 0, 0, 0, 0, 0)} \cup LongCmds \cup BadCmds

on_nema_io_write_long == io_write(LongCounts, MaxLongSubmits)

process_cl_loop_long ==
  /\ pc = "process_cl"
  /\ LoopCond(i, next_cmd_slot)
  /\ \E c \in (IF i < NEMA_MAX_CMD_COUNT THEN LongCmds ELSE BeyondCmds(next_cmd_slot)) :
       process_cl_body(c, 0)
  /\ UNCHANGED <<next_cmd_slot, inst_processed, io, submitted, completed, raises,
                 sub_raises, irq_at_submit, ctx_left, ram_disp>>

NextLong ==
  \/ on_nema_io_write_long
  \/ on_nema_io_read
  \/ process_cl_loop_long
  \/ process_cl_end

SpecLong == Init /\ [][NextLong]_vars

(***************************************************************************)
(* SpecCl: the device under a guest that binds destinations in the list    *)
(* block as well as in the frame buffer.  The guest has stored ClRecs      *)
(* records in the block before it submits; on_nema_io_write maps the block *)
(* (cpu_physical_memory_map, which for RAM gives the RAM itself) and       *)
(* process_cl reads cl->list[i] from the mapping when its loop reaches i.  *)
(* A destination of CmdWords pixels a row has one record a row.            *)
(***************************************************************************)
MaxClSubmits == 1

\* fill colors of alpha 255 whose low byte is an opcode (SET_CONST_COLOR) and
\* no opcode (12)
ClColors == {Pack(255, 0, 0, NEMA_OP_SET_CONST_COLOR), Pack(255, 0, 0, 12)}

ClBindDest ==
  Cmd(NEMA_OP_BIND_TEX, NEMA_CL_MEM_START, NEMA_TEX0, CmdWords, ClRecs, 0,
      4 * CmdWords, 0, 0, 0)

ClCmds ==
  {ClBindDest, PixBindDest,
   Cmd(NEMA_OP_SET_CLIP, 0, 0, CmdWords, ClRecs, 0, 0, 0, 0, 0)}
  \cup {Cmd(NEMA_OP_FILL_RECT, 0, 0, CmdWords, ClRecs, c, 0, 0, 0, 0) : c \in ClColors}

\* the lists the guest stores
ClLists == [1 .. ClRecs -> ClCmds]

InitCl ==
  \E list \in ClLists :
    slate_common_init([k \in 0 .. FbWords - 1 |-> 0], ClBlock(list), 1)

on_nema_io_write_cl == io_write(1 .. ClRecs, MaxClSubmits)

process_cl_loop_cl ==
  /\ pc = "process_cl"
  /\ LoopCond(i, next_cmd_slot)
  /\ process_cl_body(ClRecord(cl_mem, i), 0)
  /\ UNCHANGED <<next_cmd_slot, inst_processed, io, submitted, completed, raises,
                 sub_raises, irq_at_submit, ctx_left, ram_disp>>

NextCl ==
  \/ on_nema_io_write_cl
  \/ on_nema_io_read
  \/ process_cl_loop_cl
  \/ process_cl_end

SpecCl == InitCl /\ [][NextCl]_vars

(***************************************************************************)
(* SpecTex: the device under a guest whose lists bind.  The records are    *)
(* BIND_TEX records for the three roles, over addresses on both sides of   *)
(* the two ends of the range read through system_itcm_as and over strides  *)
(* and heights whose product does and does not fit 32 bits; what the two   *)
(* address spaces hold where a bind reads differs.                         *)
(***************************************************************************)
MaxTexCmds == 2
MaxTexSubmits == 1

\* stride and height of a destination: the frame buffer, twice the frame
\* buffer, two pairs whose product is 2^32 + FbBytes and 2^32, and rows
\* whose stride is no multiple of 4
TexDestSizes ==
  {<<4 * SurfW, SurfH>>, <<4 * SurfW, 2 * SurfH>>,
   <<4 * SurfW, 536870912 + SurfH>>, <<65536, 65536>>, <<4 * SurfW - 2, SurfH>>}

\* addresses of a read-only bind: display RAM, the two ends of the range
\* of system_itcm_as and their neighbours inside, the last 8 bytes of the
\* ITCM and the first address past it
TexReadAddrs ==
  {RAM_DISPLAY_DATA_ADDRESS, 268435456, 268435457, 536870911, 536870912,
   268435456 + ITCM_SIZE - 4 * SurfW, 268435456 + ITCM_SIZE}

TexCmds ==
  {Cmd(NEMA_OP_BIND_TEX, FB_ADDR, NEMA_TEX0, SurfW, z[2], 0, z[1], 0, 0, 0) :
     z \in TexDestSizes}
  \cup {Cmd(NEMA_OP_BIND_TEX, UNMAPPED_ADDR, NEMA_TEX0, SurfW, SurfH, 0, 4 * SurfW, 0, 0, 0)}
  \cup {Cmd(NEMA_OP_BIND_TEX, a, NEMA_TEX1, SurfW, SurfH, 0, 4 * SurfW, 0, 0, 0) :
          a \in TexReadAddrs}
  \cup {Cmd(NEMA_OP_BIND_TEX, a, NEMA_TEX3, SurfW, SurfH, 0, SurfW, 0, 0, 0) :
          a \in TexReadAddrs}

\* what the two address spaces hold where a read-only bind reads: the
\* byte of system memory, and 65536 times the byte of the ITCM
TexReadsFor(c) ==
  IF c.u_int_8_a \in {NEMA_TEX1, NEMA_TEX3}
  THEN {128 + 65536 * 64, 32 + 65536 * 255}
  ELSE {0}

on_nema_io_write_tex == io_write(1 .. MaxTexCmds, MaxTexSubmits)

process_cl_loop_tex ==
  /\ pc = "process_cl"
  /\ LoopCond(i, next_cmd_slot)
  /\ \E c \in TexCmds : \E rd \in TexReadsFor(c) : process_cl_body(c, rd)
  /\ UNCHANGED <<next_cmd_slot, inst_processed, io, submitted, completed, raises,
                 sub_raises, irq_at_submit, ctx_left, ram_disp>>

NextTex ==
  \/ on_nema_io_write_tex
  \/ on_nema_io_read
  \/ process_cl_loop_tex
  \/ process_cl_end

SpecTex == Init /\ [][NextTex]_vars

(***************************************************************************)
(* SpecWide: the device under a guest that paints with values beyond 16    *)
(* bits.  The lists are the bind + draw cycles of SpecPix; the width of    *)
(* the destination, the clip rectangle and the rectangle of FILL_RECT also *)
(* take values that need more than 16 bits, which the records carry in     *)
(* 32-bit fields and pixman takes in 16-bit parameters.  On a destination  *)
(* declared wide the guest clips to, and fills, the plain surface.         *)
(***************************************************************************)
MaxWideCmds == 6
MaxWideSubmits == 1

\* a destination width beyond 16 bits: 2^16 + 1
WideW == 65537

\* destinations over the frame buffer: SurfW pixels a row, and WideW pixels
\* declared for the same rows
WideBindDest ==
  {PixBindDest,
   Cmd(NEMA_OP_BIND_TEX, FB_ADDR, NEMA_TEX0, WideW, SurfH, 0, 4 * SurfW, 0, 0, 0)}

\* rectangles of SET_CLIP and FILL_RECT: the surface, its right pixel, the
\* surface moved right by 2^16, and one 2^16 wider than the surface
WideRects ==
  {<<0, 0, SurfW, SurfH>>, <<1, 0, SurfW, SurfH>>,
   <<65536, 0, SurfW, SurfH>>, <<0, 0, 65536 + SurfW, SurfH>>}

WideModes == {NEMA_BL_SIMPLE, NEMA_BL_SIMPLE + NEMA_BL_OPA}

\* constant colors: opacity 128 and 255
WideConsts == {Pack(128, 0, 0, 0), Pack(255, 0, 0, 0)}

WideFills ==
  {Cmd(NEMA_OP_FILL_RECT, 0, 0, r[3], r[4], Pack(255, 255, 0, 0), r[1], r[2], 0, 0) :
     r \in WideRects}

\* the rectangles the guest uses on destination d
WideRectsOn(d) ==
  IF d.width = WideW THEN {<<0, 0, SurfW, SurfH>>} ELSE WideRects

\* the records the guest puts next, given what its list has set up
WideFollow(ds, c) ==
  IF c.dest_tex = NULL
    THEN WideBindDest
  ELSE IF ~ds.has_clip_set
    THEN {Cmd(NEMA_OP_SET_CLIP, 0, 0, r[3], r[4], 0, r[1], r[2], 0, 0) :
            r \in WideRectsOn(c.dest_tex)}
  ELSE IF c.blending_mode = 0
    THEN {Cmd(NEMA_OP_SET_BLEND_FILL, 0, 0, m, 0, 0, 0, 0, 0, 0) : m \in WideModes}
  ELSE IF HasBit(c.blending_mode, NEMA_BL_OPA) /\ ~c.const_color_set
    THEN {Cmd(NEMA_OP_SET_CONST_COLOR, 0, 0, k, 0, 0, 0, 0, 0, 0) : k \in WideConsts}
  ELSE IF c.src_tex = NULL
    THEN {f \in WideFills :
            <<f.int_a, f.int_b, f.u_int_a, f.u_int_b>> \in WideRectsOn(c.dest_tex)}
         \cup {PixBindSrc}
  ELSE {Cmd(NEMA_OP_BLIT, 0, 0, 0, 0, 0, 0, 0, 0, 0)}

on_nema_io_write_wide == io_write(4 .. MaxWideCmds, MaxWideSubmits)

process_cl_loop_wide ==
  /\ pc = "process_cl"
  /\ LoopCond(i, next_cmd_slot)
  /\ \E c \in WideFollow(DS, ctx) : \E rd \in PixReadsFor(c) : process_cl_body(c, rd)
  /\ UNCHANGED <<next_cmd_slot, inst_processed, io, submitted, completed, raises,
                 sub_raises, irq_at_submit, ctx_left, ram_disp>>

NextWide ==
  \/ on_nema_io_write_wide
  \/ on_nema_io_read
  \/ process_cl_loop_wide
  \/ process_cl_end

SpecWide == Init /\ [][NextWide]_vars

(***************************************************************************)
(* SpecDisp: the display device under a guest that writes and reads its    *)
(* registers while the console asks for repaints.  The handlers run under  *)
(* the lock of the machine, one at a time.  SpecDispLive adds what the     *)
(* console's refresh timer gives: a repaint is asked for again and again   *)
(* as long as the process runs.                                            *)
(***************************************************************************)
InitDisp ==
  \E size \in ScreenSizes :
    slate_common_init([k \in 0 .. FbWords - 1 |-> 0], ZeroBlock, size)

NextDisp ==
  \/ on_ram_fb_write
  \/ on_ram_fb_read
  \/ gfx_update

SpecDisp == InitDisp /\ [][NextDisp]_vars

SpecDispLive == InitDisp /\ [][NextDisp]_vars /\ WF_vars(gfx_update)

(***************************************************************************)
(* Vocabulary of the properties.                                           *)
(***************************************************************************)
\* the indices 0 .. n-1 in increasing order
UpTo(n) == [k \in 1 .. n |-> k - 1]

\* this step hands a record, cmd', to process_cmd
Dispatches == pc = "process_cl" /\ Len(dispatched') = Len(dispatched) + 1

\* this step hands a record to process_cmd and its handler returns
Returns == Dispatches /\ pc' = "process_cl"

\* this step hands a record to process_cmd and its handler ends in exit()
Faults == Dispatches /\ pc' = "exited"

ClipState == <<has_clip_set, pixman_clip_region, nema_clip_region>>

SubmitWrite ==
  [kind |-> "write", offset |-> NEMA_REG_OP,
   val |-> NEMA_REG_OP_SUBMIT_COMMAND_LIST, ret |-> 0]

AckWrite ==
  [kind |-> "write", offset |-> NEMA_REG_SIG,
   val |-> NEMA_REG_OP_SIGNAL_RECEIVED, ret |-> 0]

(***************************************************************************)
(* C1.  A list of N valid records in which no record faults has its        *)
(* records 0 .. N-1 dispatched in increasing index order, each once and    *)
(* none skipped, and the completion interrupt is raised once for the       *)
(* submission, after the handler of record N-1 has returned: while the     *)
(* loop runs the records dispatched are 0 .. i-1 and no raise has been     *)
(* made; once the write has returned they are 0 .. N-1 and one raise has   *)
(* been made.                                                              *)
(***************************************************************************)
C1_DispatchedInOrderThenRaisedOnce ==
  /\ pc = "process_cl" =>
       /\ i <= next_cmd_slot
       /\ dispatched = UpTo(i)
       /\ sub_raises = 0
  /\ (pc = "idle" /\ submitted > 0) =>
       /\ dispatched = UpTo(next_cmd_slot)
       /\ sub_raises = 1

C1_Witness ==
  /\ pc = "idle"
  /\ next_cmd_slot >= 3
  /\ dispatched = UpTo(next_cmd_slot)
  /\ sub_raises = 1
  /\ inst_processed = 1

(***************************************************************************)
(* C2.  The completion interrupt line goes from raised to lowered only in  *)
(* a step that is the register write of 3 to offset 0x01: no submission,   *)
(* no other write and no read lowers it.                                   *)
(***************************************************************************)
C2_LoweredOnlyByAck ==
  [][(inst_processed = 1 /\ inst_processed' = 0) =>
       (pc = "idle" /\ pc' = "idle" /\ io' = AckWrite)]_vars

C2_Witness ==
  /\ inst_processed = 0
  /\ raises > 0
  /\ io = AckWrite

(***************************************************************************)
(* C3.  Every list processed to completion issues its own raise, also when *)
(* it was submitted while the line was still raised: the number of raises  *)
(* equals the number of lists processed to completion, and a submit write  *)
(* that has returned has processed its list.                               *)
(***************************************************************************)
C3_OneRaisePerCompletedList ==
  /\ raises = completed
  /\ pc = "idle" => completed = submitted
  /\ pc # "idle" => completed = submitted - 1

C3_Witness ==
  /\ pc = "idle"
  /\ irq_at_submit = 1
  /\ completed = 2
  /\ raises = 2
  /\ Len(dispatched) >= 1

(***************************************************************************)
(* C4.  A list whose valid count is 0 dispatches no handler, changes no    *)
(* destination memory, leaves the clip state as it was, and raises the     *)
(* completion interrupt once: neither the submit write that finds count 0  *)
(* nor the end of process_cl that follows it changes fb or the clip state, *)
(* no record is dispatched, and that end makes the one raise.              *)
(***************************************************************************)
C4_EmptyListOnlyRaises ==
  [][/\ (pc = "idle" /\ pc' = "process_cl" /\ next_cmd_slot' = 0) =>
          /\ fb' = fb
          /\ ClipState' = ClipState
          /\ dispatched' = <<>>
          /\ sub_raises' = 0
     /\ (pc = "process_cl" /\ next_cmd_slot = 0) =>
          /\ pc' = "idle"
          /\ fb' = fb
          /\ ClipState' = ClipState
          /\ dispatched' = <<>>
          /\ sub_raises' = 1
          /\ raises' = raises + 1
          /\ inst_processed' = 1]_vars

C4_Witness ==
  /\ pc = "idle"
  /\ submitted = 2
  /\ next_cmd_slot = 0
  /\ dispatched = <<>>
  /\ sub_raises = 1
  /\ has_clip_set
  /\ \E k \in DOMAIN fb : fb[k] # 0

(***************************************************************************)
(* C5.  A record whose opcode is outside 1 .. 11, a BIND_TEX whose         *)
(* selector names no role, and a FILL_RECT or BLIT that finds no           *)
(* destination bound end the submission in the fault state at that         *)
(* record: the process has exited at index i, the records dispatched are   *)
(* 0 .. i, no raise was made for the submission, and nothing happens       *)
(* after it.                                                               *)
(***************************************************************************)
C5_FaultEndsSubmission ==
  [][/\ (Dispatches /\ cmd'.op \notin 1 .. 11) => pc' = "exited"
     /\ (Dispatches /\ cmd'.op = NEMA_OP_BIND_TEX
           /\ cmd'.u_int_8_a \notin {NEMA_TEX0, NEMA_TEX1, NEMA_TEX3}) => pc' = "exited"
     /\ (Dispatches /\ cmd'.op \in {NEMA_OP_FILL_RECT, NEMA_OP_BLIT}
           /\ ctx.dest_tex = NULL) => pc' = "exited"
     /\ Faults => (i' = i /\ dispatched' = UpTo(i + 1) /\ sub_raises' = 0
                   /\ raises' = raises /\ inst_processed' = inst_processed)
     /\ pc = "exited" => vars' = vars]_vars

C5_Witness ==
  /\ pc = "exited"
  /\ cmd.op \notin 1 .. 11
  /\ i >= 1
  /\ i + 1 < next_cmd_slot
  /\ dispatched = UpTo(i + 1)
  /\ sub_raises = 0

(***************************************************************************)
(* C6, as claimed.  After a drawing operation completes, the blend-mode    *)
(* flags, the constant color and its 'set' flag equal what they were       *)
(* before it; they change only when a SET_BLEND_* or SET_CONST_COLOR       *)
(* record overwrites them.                                                 *)
(***************************************************************************)
C6_BlendAndColorSurviveDraw ==
  [][Returns =>
       /\ ctx'.blending_mode # ctx.blending_mode =>
            cmd'.op \in {NEMA_OP_SET_BLEND_FILL, NEMA_OP_SET_BLEND_BLIT}
       /\ (ctx'.const_color # ctx.const_color
             \/ ctx'.const_color_set # ctx.const_color_set) =>
            cmd'.op = NEMA_OP_SET_CONST_COLOR]_vars

(***************************************************************************)
(* C6, amended.  The blend-mode flags set by SET_BLEND_FILL or             *)
(* SET_BLEND_BLIT and the constant color (and its 'set' flag) set by       *)
(* SET_CONST_COLOR keep their values up to the next drawing operation      *)
(* only: a drawing operation that completes leaves the flags 0 and the     *)
(* constant color 0 and unset, and any other record changes them only by   *)
(* being a SET_BLEND_* or a SET_CONST_COLOR that overwrites them.          *)
(***************************************************************************)
C6_BlendAndColorClearedByDraw ==
  [][Returns =>
       IF IsDrawOp(cmd'.op)
       THEN /\ ctx'.blending_mode = 0
            /\ ctx'.const_color = 0
            /\ ~ctx'.const_color_set
       ELSE /\ IF cmd'.op \in {NEMA_OP_SET_BLEND_FILL, NEMA_OP_SET_BLEND_BLIT}
               THEN ctx'.blending_mode = cmd'.u_int_a % 256
               ELSE ctx'.blending_mode = ctx.blending_mode
            /\ IF cmd'.op = NEMA_OP_SET_CONST_COLOR
               THEN ctx'.const_color = cmd'.u_int_a /\ ctx'.const_color_set
               ELSE /\ ctx'.const_color = ctx.const_color
                    /\ ctx'.const_color_set = ctx.const_color_set]_vars

C6_Witness ==
  /\ pc = "process_cl"
  /\ cmd.op = NEMA_OP_FILL_RECT
  /\ prev_ctx.blending_mode = NEMA_BL_OPA
  /\ prev_ctx.const_color_set
  /\ prev_ctx.const_color # 0
  /\ ctx.blending_mode = 0
  /\ ctx.const_color = 0
  /\ ~ctx.const_color_set

(***************************************************************************)
(* C7.  After every drawing operation that completes, the destination,     *)
(* source and mask bindings of the pipeline context are empty, and a       *)
(* destination appears in the context only by a BIND_TEX for the           *)
(* destination role.                                                       *)
(***************************************************************************)
C7_BindingsEmptyAfterDraw ==
  [][Returns =>
       /\ IsDrawOp(cmd'.op) =>
            /\ ctx'.dest_tex = NULL
            /\ ctx'.dest_surface = NULL
            /\ ctx'.src_tex = NULL
            /\ ctx'.mask_tex = NULL
       /\ (ctx.dest_tex = NULL /\ ctx'.dest_tex # NULL) =>
            (cmd'.op = NEMA_OP_BIND_TEX /\ cmd'.u_int_8_a = NEMA_TEX0)]_vars

C7_Witness ==
  /\ pc = "process_cl"
  /\ IsDrawOp(cmd.op)
  /\ prev_ctx.dest_tex # NULL
  /\ prev_ctx.src_tex # NULL
  /\ prev_ctx.mask_tex # NULL
  /\ ctx.dest_tex = NULL
  /\ ctx.src_tex = NULL
  /\ ctx.mask_tex = NULL

(***************************************************************************)
(* C8.  Every drawing opcode dispatched while no destination surface is    *)
(* bound faults before it executes any drawing step.                       *)
(***************************************************************************)
C8_DrawWithoutDestinationFaults ==
  [][(Dispatches /\ IsDrawOp(cmd'.op) /\ ctx.dest_tex = NULL) =>
       (pc' = "exited" /\ fb' = fb)]_vars

(***************************************************************************)
(* C9.  For every drawing opcode, if the has-mask flag is set while no     *)
(* mask is bound, or clear while a mask is bound, the operation faults and *)
(* has written no destination pixel.                                       *)
(***************************************************************************)
C9_MaskMismatchFaults ==
  [][(Dispatches /\ IsDrawOp(cmd'.op)
        /\ HasBit(ctx.blending_mode, NEMA_BL_MASK) # (ctx.mask_tex # NULL)) =>
       (pc' = "exited" /\ fb' = fb)]_vars

(***************************************************************************)
(* C10.  A FILL_RECT or BLIT executes only when 'a SET_CONST_COLOR was     *)
(* executed in the current bind+draw cycle' equals the has-opacity flag:   *)
(* on a mismatch, either way, the operation faults and has written no      *)
(* pixel.                                                                  *)
(***************************************************************************)
C10_OpacityMismatchFaults ==
  [][(Dispatches /\ cmd'.op \in {NEMA_OP_FILL_RECT, NEMA_OP_BLIT}
        /\ cycle_const # HasBit(ctx.blending_mode, NEMA_BL_OPA)) =>
       (pc' = "exited" /\ fb' = fb /\ ctx' = ctx)]_vars

C10_Witness ==
  /\ pc = "exited"
  /\ cmd.op = NEMA_OP_FILL_RECT
  /\ has_clip_set
  /\ ctx.dest_tex # NULL
  /\ ctx.dest_surface # NULL
  /\ ctx.mask_tex = NULL
  /\ ctx.blending_mode = NEMA_BL_SIMPLE
  /\ cycle_const

(***************************************************************************)
(* C11.  The clip state belongs to the device: the rectangle and its       *)
(* has-been-set flag change only in the step that executes a SET_CLIP      *)
(* record, which makes them the rectangle of that record, and so keep the  *)
(* values of the most recent SET_CLIP across drawing operations, list      *)
(* ends, raises, acknowledgments and later submissions; a FILL_RECT that   *)
(* finds the flag set, in whatever list it was set, with a destination     *)
(* bound and consistent flags, passes the check and returns.               *)
(***************************************************************************)
C11_ClipStateIsDeviceScoped ==
  [][/\ ClipState' # ClipState =>
          (Returns /\ cmd'.op = NEMA_OP_SET_CLIP)
     /\ (Returns /\ cmd'.op = NEMA_OP_SET_CLIP) =>
          /\ has_clip_set'
          /\ nema_clip_region' = [x |-> cmd'.int_a, y |-> cmd'.int_b,
                                  w |-> cmd'.u_int_a, h |-> cmd'.u_int_b]
          /\ (cmd'.u_int_a > 0 /\ cmd'.u_int_b > 0) =>
               pixman_clip_region' = [x1 |-> cmd'.int_a, y1 |-> cmd'.int_b,
                                      x2 |-> cmd'.int_a + cmd'.u_int_a,
                                      y2 |-> cmd'.int_b + cmd'.u_int_b]
     /\ (Dispatches /\ cmd'.op = NEMA_OP_FILL_RECT /\ has_clip_set
           /\ ctx.dest_tex # NULL /\ ctx.mask_tex = NULL
           /\ ~HasBit(ctx.blending_mode, NEMA_BL_MASK)
           /\ ~HasBit(ctx.blending_mode, NEMA_BL_OPA)
           /\ ~ctx.const_color_set) => Returns]_vars

\* the second list is BIND_TEX destination, FILL_RECT: it holds no SET_CLIP,
\* and its FILL_RECT has drawn under the clip the first list set
C11_Witness ==
  /\ submitted = 2
  /\ pc = "process_cl"
  /\ i = 2
  /\ cmd.op = NEMA_OP_FILL_RECT
  /\ prev_ctx.dest_tex # NULL
  /\ has_clip_set
  /\ nema_clip_region = [x |-> 0, y |-> 0, w |-> 1, h |-> 1]
  /\ fb[0] # 0

(***************************************************************************)
(* C12.  At the start of every list submission the pipeline context is     *)
(* empty: no destination, source or mask bound, no surfaces, blend flags   *)
(* 0, constant color 0 and unset, whatever the previous submission left in *)
(* its context when it finished.                                          *)
(***************************************************************************)
C12_ContextEmptyAtSubmission ==
  (pc = "process_cl" /\ i = 0) =>
    ctx = [dest_tex |-> NULL, src_tex |-> NULL, mask_tex |-> NULL,
           dest_surface |-> NULL, src_surface |-> NULL,
           const_color |-> 0, const_color_set |-> FALSE,
           blending_mode |-> 0, blending_option |-> 0]

C12_Witness ==
  /\ submitted = 2
  /\ ctx_left
  /\ pc = "process_cl"
  /\ i = 0
  /\ next_cmd_slot > 0
  /\ ctx.dest_tex = NULL
  /\ ctx.blending_mode = 0

(***************************************************************************)
(* C13.  The clip is never initialised by the device itself: as long as no *)
(* SET_CLIP record has executed (has_clip_set is still false), every       *)
(* drawing operation faults, also when a destination is bound and the      *)
(* mask and opacity flags agree with the bindings.                         *)
(***************************************************************************)
C13_DrawWithoutClipFaults ==
  [][(Dispatches /\ IsDrawOp(cmd'.op) /\ ~has_clip_set
        /\ ctx.dest_tex # NULL
        /\ HasBit(ctx.blending_mode, NEMA_BL_MASK) = (ctx.mask_tex # NULL)
        /\ HasBit(ctx.blending_mode, NEMA_BL_OPA) = ctx.const_color_set) =>
       pc' = "exited"]_vars

(***************************************************************************)
(* C14.  For each role (destination, source, mask) at most one surface     *)
(* that was acquired and not released exists at any time: a BIND_TEX for a *)
(* role that holds a surface releases the one held.                        *)
(***************************************************************************)
C14_OneSurfacePerRole ==
  /\ unreleased.dest <= 1
  /\ unreleased.src <= 1
  /\ unreleased.mask <= 1

(***************************************************************************)
(* C15.  When a submission has ended, by the raise of the completion       *)
(* interrupt or by a fault, every write mapping of a destination acquired  *)
(* in it has been released.                                                *)
(***************************************************************************)
C15_DestinationReleasedAtEnd ==
  pc \in {"idle", "exited"} => unreleased.dest = 0

(***************************************************************************)
(* C16, as claimed.  A BIND_TEX whose selector is 0 binds the destination, *)
(* 1 the source, 3 the mask (when the surface can be acquired); any other  *)
(* selector is a fault.                                                    *)
(***************************************************************************)
C16_SelectorZeroOneThree ==
  [][(Dispatches /\ cmd'.op = NEMA_OP_BIND_TEX) =>
       /\ cmd'.u_int_8_a \notin {0, 1, 3} => pc' = "exited"
       /\ (cmd'.u_int_8_a = 0 /\ cmd'.addr_a = FB_ADDR) =>
            (Returns /\ ctx'.dest_tex # NULL /\ ctx'.dest_surface # NULL)
       /\ (cmd'.u_int_8_a = 1 /\ cmd'.addr_a = RAM_DISPLAY_DATA_ADDRESS) =>
            (Returns /\ ctx'.src_tex # NULL)
       /\ (cmd'.u_int_8_a = 3 /\ cmd'.addr_a = RAM_DISPLAY_DATA_ADDRESS) =>
            (Returns /\ ctx'.mask_tex # NULL)]_vars

(***************************************************************************)
(* C16, amended.  A BIND_TEX whose selector is 1 binds the destination     *)
(* (image and surface), 2 the source, 4 the mask, and leaves the other     *)
(* roles as they were; any other selector, 0 and 3 among them, is a fault. *)
(***************************************************************************)
C16_SelectorOneTwoFour ==
  [][(Dispatches /\ cmd'.op = NEMA_OP_BIND_TEX) =>
       /\ cmd'.u_int_8_a \notin {1, 2, 4} => pc' = "exited"
       /\ (Returns /\ cmd'.u_int_8_a = 1) =>
            /\ ctx'.dest_tex # NULL /\ ctx'.dest_tex.format = PIXMAN_a8r8g8b8
            /\ ctx'.dest_surface # NULL
            /\ ctx'.src_tex = ctx.src_tex /\ ctx'.mask_tex = ctx.mask_tex
       /\ (Returns /\ cmd'.u_int_8_a = 2) =>
            /\ ctx'.src_tex # NULL /\ ctx'.src_tex.format = PIXMAN_a8r8g8b8
            /\ ctx'.dest_tex = ctx.dest_tex /\ ctx'.mask_tex = ctx.mask_tex
       /\ (Returns /\ cmd'.u_int_8_a = 4) =>
            /\ ctx'.mask_tex # NULL /\ ctx'.mask_tex.format = PIXMAN_a8
            /\ ctx'.dest_tex = ctx.dest_tex /\ ctx'.src_tex = ctx.src_tex
       /\ (cmd'.u_int_8_a \in {2, 4}) => Returns]_vars

\* the three roles were bound by selectors 1, 2 and 4, and selector 3 has
\* faulted after them
C16_Witness ==
  /\ pc = "exited"
  /\ cmd.op = NEMA_OP_BIND_TEX
  /\ cmd.u_int_8_a = 3
  /\ ctx.dest_tex # NULL
  /\ ctx.src_tex # NULL
  /\ ctx.mask_tex # NULL
  /\ i = 3

(***************************************************************************)
(* C17.  With a destination of width W and height H bound, the clip set to *)
(* 0,0,W,H and the blend flags set to simple, a FILL_RECT 0,0,W,H whose    *)
(* color C has alpha 255 returns and leaves every pixel of the destination *)
(* equal to C, whatever the destination held; the end of the list then     *)
(* changes no pixel and makes the one raise of the submission.             *)
(***************************************************************************)
C17_OpaqueFillIsUniform ==
  [][/\ (/\ Dispatches
         /\ cmd'.op = NEMA_OP_FILL_RECT
         /\ ctx.dest_tex # NULL
         /\ ctx.mask_tex = NULL
         /\ ctx.blending_mode = NEMA_BL_SIMPLE
         /\ ~ctx.const_color_set
         /\ has_clip_set
         /\ nema_clip_region = [x |-> 0, y |-> 0, w |-> ctx.dest_tex.width,
                                h |-> ctx.dest_tex.height]
         /\ cmd'.int_a = 0 /\ cmd'.int_b = 0
         /\ cmd'.u_int_a = ctx.dest_tex.width
         /\ cmd'.u_int_b = ctx.dest_tex.height
         /\ Alpha(cmd'.u_int_c) = 255) =>
          /\ pc' = "process_cl"
          /\ \A k \in DOMAIN fb : fb'[k] = cmd'.u_int_c
     /\ (pc = "process_cl" /\ pc' = "idle") =>
          /\ fb' = fb
          /\ sub_raises = 0 /\ sub_raises' = 1
          /\ inst_processed' = 1]_vars

\* the list BIND_TEX destination, SET_CLIP, SET_BLEND_FILL, FILL_RECT has
\* completed over a destination that held no pixel of the fill color
C17_Witness ==
  /\ pc = "idle"
  /\ next_cmd_slot = 4
  /\ dispatched = UpTo(4)
  /\ sub_raises = 1
  /\ inst_processed = 1
  /\ nema_clip_region = [x |-> 0, y |-> 0, w |-> SurfW, h |-> SurfH]
  /\ fb = [k \in 0 .. FbWords - 1 |-> Pack(255, 0, 128, 255)]

(***************************************************************************)
(* C18.  With no mask bound, a FILL_RECT or BLIT executed with the         *)
(* has-opacity flag set and a constant color whose top byte is 255 leaves  *)
(* the destination as the same record leaves it with the flag clear and no *)
(* constant color set, for every destination content, clip and rectangle.  *)
(***************************************************************************)
C18_FullOpacityIsNoOpacity ==
  [][(/\ Dispatches
      /\ cmd'.op \in {NEMA_OP_FILL_RECT, NEMA_OP_BLIT}
      /\ cmd'.op = NEMA_OP_BLIT => ctx.src_tex # NULL
      /\ ctx.dest_tex # NULL
      /\ has_clip_set
      /\ ctx.mask_tex = NULL
      /\ ~HasBit(ctx.blending_mode, NEMA_BL_MASK)
      /\ HasBit(ctx.blending_mode, NEMA_BL_OPA)
      /\ ctx.const_color_set
      /\ Alpha(ctx.const_color) = 255) =>
       LET plain == process_cmd(DS, cmd',
                      [ctx EXCEPT !.blending_mode = @ - NEMA_BL_OPA,
                                  !.const_color = 0,
                                  !.const_color_set = FALSE],
                      fb, 0)
       IN  /\ ~plain.fault
           /\ pc' = "process_cl"
           /\ fb' = plain.mem]_vars

(***************************************************************************)
(* C19.  With the has-opacity flag set and a constant color whose top byte *)
(* is 0, a FILL_RECT or BLIT leaves every pixel of the destination as it   *)
(* was, with no mask bound and with a mask bound under the has-mask flag,  *)
(* for every fill color and source content.                                *)
(***************************************************************************)
C19_ZeroOpacityDrawsNothing ==
  [][(/\ Dispatches
      /\ cmd'.op \in {NEMA_OP_FILL_RECT, NEMA_OP_BLIT}
      /\ HasBit(ctx.blending_mode, NEMA_BL_OPA)
      /\ ctx.const_color_set
      /\ Alpha(ctx.const_color) = 0
      /\ HasBit(ctx.blending_mode, NEMA_BL_MASK) = (ctx.mask_tex # NULL)) =>
       fb' = fb]_vars

\* a BLIT of an opaque source through a bound mask of full coverage has
\* returned under opacity 0, over a destination that holds pixels
C19_Witness ==
  /\ pc = "process_cl"
  /\ cmd.op = NEMA_OP_BLIT
  /\ HasBit(prev_ctx.blending_mode, NEMA_BL_OPA)
  /\ HasBit(prev_ctx.blending_mode, NEMA_BL_MASK)
  /\ prev_ctx.const_color_set
  /\ Alpha(prev_ctx.const_color) = 0
  /\ prev_ctx.mask_tex # NULL
  /\ prev_ctx.mask_tex.data.bytes[0] = 255
  /\ prev_ctx.src_tex # NULL
  /\ prev_ctx.src_tex.data.bytes[3] = 255
  /\ fb[0] = Pack(255, 0, 0, 255)

(***************************************************************************)
(* C20.  A BIND_TEX for the mask role whose width is not a multiple of 4   *)
(* acquires a mask whose row pitch is a multiple of 4 and in which, for    *)
(* every row r, the first width bytes of padded row r are the first width  *)
(* bytes of row r of the source and every other byte of the padded row is  *)
(* 0.                                                                      *)
(***************************************************************************)
C20_MaskRowsPadded ==
  [][(/\ Dispatches
      /\ cmd'.op = NEMA_OP_BIND_TEX
      /\ cmd'.u_int_8_a = NEMA_TEX3
      /\ cmd'.u_int_a % 4 # 0) =>
       LET m == ctx'.mask_tex
           width == cmd'.u_int_a
           height == cmd'.u_int_b
           stride == cmd'.int_a
           source == GuestRead(mem_read', stride * height).bytes
       IN  /\ pc' = "process_cl"
           /\ m # NULL
           /\ m.stride % 4 = 0
           /\ m.stride >= width
           /\ \A r \in 0 .. height - 1 :
                /\ \A k \in 0 .. width - 1 :
                     /\ (r * m.stride + k) \in DOMAIN m.data.bytes
                     /\ m.data.bytes[r * m.stride + k] = source[r * stride + k]
                /\ \A k \in width .. m.stride - 1 :
                     /\ (r * m.stride + k) \in DOMAIN m.data.bytes
                     /\ m.data.bytes[r * m.stride + k] = 0]_vars

(***************************************************************************)
(* C21.  A list whose count is greater than 250 faults without any of its  *)
(* records being dispatched, and no record is ever read from an index at   *)
(* or beyond 250: every record dispatched belongs to a list of at most 250 *)
(* records and has an index below 250, and no list of more than 250        *)
(* records is processed to its end.                                        *)
(***************************************************************************)
C21_OversizedListFaultsUnread ==
  [][/\ Dispatches =>
          (next_cmd_slot <= NEMA_MAX_CMD_COUNT /\ i < NEMA_MAX_CMD_COUNT)
     /\ (pc = "process_cl" /\ pc' = "idle") =>
          next_cmd_slot <= NEMA_MAX_CMD_COUNT]_vars

(***************************************************************************)
(* C22.  A register write other than (offset 0x00, value 2) and (offset    *)
(* 0x01, value 3), the reserved write (offset 0x00, value 1) among them,   *)
(* and a register read, dispatch no record and leave the clip state, the   *)
(* destination memory and the level of the completion interrupt as they    *)
(* were; a register read returns 0.                                        *)
(***************************************************************************)
C22_OtherAccessesDoNothing ==
  [][(pc = "idle" /\ io' \notin {SubmitWrite, AckWrite}) =>
       /\ pc' = "idle"
       /\ dispatched' = dispatched
       /\ ClipState' = ClipState
       /\ fb' = fb
       /\ inst_processed' = inst_processed
       /\ io'.kind = "read" => io'.ret = 0]_vars

\* the reserved write was made after a list that set the clip and drew had
\* raised the interrupt, and all of that is as the list left it
C22_Witness ==
  /\ pc = "idle"
  /\ io = [kind |-> "write", offset |-> NEMA_REG_OP,
           val |-> NEMA_REG_OP_SUBMIT_COMMAND, ret |-> 0]
  /\ submitted = 1
  /\ completed = 1
  /\ inst_processed = 1
  /\ has_clip_set
  /\ fb[0] # 0
  /\ Len(dispatched) >= 3

(***************************************************************************)
(* C23.  Every operation of the vector back end (DRAW_LINE, DRAW_RECT,     *)
(* FILL_RECT_ROUNDED, DRAW_RECT_ROUNDED) dispatched while a mask is bound  *)
(* faults and draws nothing.                                               *)
(***************************************************************************)
C23_VectorOpWithMaskFaults ==
  [][(/\ Dispatches
      /\ cmd'.op \in {NEMA_OP_DRAW_LINE, NEMA_OP_DRAW_RECT,
                      NEMA_OP_FILL_RECT_ROUNDED, NEMA_OP_DRAW_RECT_ROUNDED}
      /\ ctx.mask_tex # NULL) =>
       (pc' = "exited" /\ fb' = fb)]_vars

(***************************************************************************)
(* C24.  No drawing operation of either back end changes a pixel of the    *)
(* destination that lies outside the rectangle of the most recent          *)
(* SET_CLIP.                                                               *)
(***************************************************************************)
C24_NoPixelOutsideClipChanges ==
  [][(Dispatches /\ IsDrawOp(cmd'.op) /\ has_clip_set /\ ctx.dest_tex # NULL) =>
       \A x \in 0 .. ctx.dest_tex.width - 1, y \in 0 .. ctx.dest_tex.height - 1 :
         ~(/\ nema_clip_region.x <= x /\ x < nema_clip_region.x + nema_clip_region.w
           /\ nema_clip_region.y <= y /\ y < nema_clip_region.y + nema_clip_region.h) =>
           fb'[FbIndex(ctx.dest_tex, x, y)] = fb[FbIndex(ctx.dest_tex, x, y)]]_vars

(***************************************************************************)
(* C25.  A list that faults has no partial effect: when a submission has   *)
(* faulted, the destination memory and the clip state are what they were   *)
(* before the submission.  Stated of the first submission after            *)
(* construction, before which the destination memory holds zeros and no    *)
(* clip was ever set.                                                      *)
(***************************************************************************)
C25_FailedListLeavesNoTrace ==
  (pc = "exited" /\ submitted = 1) =>
    /\ fb = [k \in 0 .. FbWords - 1 |-> 0]
    /\ ~has_clip_set
    /\ pixman_clip_region = EmptyRegion
    /\ nema_clip_region = [x |-> 0, y |-> 0, w |-> 0, h |-> 0]

(***************************************************************************)
(* C26.  The records a submission dispatches are the records that were in  *)
(* the block at the submit write: no step of the submission, a drawing     *)
(* operation on a destination that overlaps the block included, alters a   *)
(* record of the list that is still to be dispatched.                      *)
(***************************************************************************)
C26_ListIsSnapshot ==
  [][Dispatches =>
       \A k \in 0 .. ClRecs - 1 :
         (k > i /\ k < next_cmd_slot) =>
           ClRecord(cl_mem', k) = ClRecord(cl_mem, k)]_vars

(***************************************************************************)
(* C27.  Two submissions never overlap: when the first record of a         *)
(* submission is about to be dispatched, every earlier submission has had  *)
(* all its records dispatched and its completion interrupt raised (a       *)
(* submission that faulted has ended the process and is followed by none), *)
(* and a register access is made only when no list is being processed,     *)
(* that is, after the submit write has returned.                           *)
(***************************************************************************)
C27_SubmissionsDoNotOverlap ==
  [][/\ (pc' = "process_cl" /\ i' = 0 /\ submitted' = submitted + 1) =>
          /\ pc = "idle"
          /\ completed = submitted
          /\ raises = submitted
          /\ submitted > 0 => dispatched = UpTo(next_cmd_slot)
     /\ io' # io => (pc = "idle" /\ pc' \in {"idle", "process_cl"} /\ (pc' = "process_cl" => i' = 0))
     /\ pc = "exited" => pc' = "exited"]_vars

\* the second list is being processed, submitted after the first was
\* processed to its end and had raised the interrupt
C27_Witness ==
  /\ submitted = 2
  /\ completed = 1
  /\ raises = 1
  /\ pc = "process_cl"
  /\ i >= 1
  /\ dispatched = UpTo(i)
  /\ irq_at_submit = 1

(***************************************************************************)
(* C28.  For a BIND_TEX of the destination role with stride s and height   *)
(* h, the length asked of the write mapping is the integer product s * h   *)
(* (the product has no bits beyond the 32 of the length asked), and if the *)
(* length mapped differs from it, or the mapping is null, the bind faults  *)
(* and binds no destination.                                               *)
(***************************************************************************)
C28_MappingLengthIsProduct ==
  [][(/\ Dispatches
      /\ cmd'.op = NEMA_OP_BIND_TEX
      /\ cmd'.u_int_8_a = NEMA_TEX0
      /\ cmd'.int_a > 0 /\ cmd'.u_int_b > 0) =>
       LET s == cmd'.int_a
           h == cmd'.u_int_b
           asked == tex_read'.len
       IN  /\ tex_read'.as = "map"
           /\ tex_read'.addr = cmd'.addr_a
           /\ \A k \in 0 .. 3 : Chan(asked, k) = Digit(s, h, k)
           /\ \A k \in 4 .. 7 : Digit(s, h, k) = 0
           /\ (\/ cpu_physical_memory_map_len(cmd'.addr_a, asked) # asked
               \/ cpu_physical_memory_map(cmd'.addr_a, asked) = NULL) =>
                (pc' = "exited" /\ ctx' = ctx)]_vars

(***************************************************************************)
(* C29.  A BIND_TEX of the source or mask role at address A reads its      *)
(* stride * height bytes through the secondary address space, at offset    *)
(* A - 0x10000000, exactly when 0x10000000 < A < 0x20000000, and from      *)
(* system memory at A otherwise, A = 0x10000000 and A = 0x20000000         *)
(* included; the first row of the surface bound holds the bytes of the     *)
(* space read; a read of the secondary space that fails is a fault.        *)
(***************************************************************************)
C29_ReadOnlyBindAddressSpace ==
  [][(/\ Dispatches
      /\ cmd'.op = NEMA_OP_BIND_TEX
      /\ cmd'.u_int_8_a \in {NEMA_TEX1, NEMA_TEX3}) =>
       LET A == cmd'.addr_a
           length == cmd'.int_a * cmd'.u_int_b
           secondary == 268435456 < A /\ A < 536870912
           held == IF secondary THEN mem_read' \div 65536 ELSE mem_read' % 65536
           image == IF cmd'.u_int_8_a = NEMA_TEX1 THEN ctx'.src_tex ELSE ctx'.mask_tex
       IN  /\ tex_read' = IF secondary
                          THEN [as |-> "itcm", addr |-> A - 268435456, len |-> length]
                          ELSE [as |-> "system", addr |-> A, len |-> length]
           /\ Returns =>
                /\ image # NULL
                /\ \A k \in 0 .. cmd'.int_a - 1 : image.data.bytes[k] = held % 256
           /\ ~secondary => Returns
           /\ (secondary /\ ~address_space_rw_ok(A - 268435456, length)) =>
                (pc' = "exited" /\ ctx' = ctx)
           /\ (secondary /\ address_space_rw_ok(A - 268435456, length)) => Returns]_vars

\* a source was read from system memory at 0x10000000 and a mask then
\* through the secondary space at offset 1, each holding its own bytes
C29_Witness ==
  /\ pc = "process_cl"
  /\ i = 2
  /\ cmd.op = NEMA_OP_BIND_TEX
  /\ cmd.u_int_8_a = NEMA_TEX3
  /\ cmd.addr_a = 268435457
  /\ tex_read = [as |-> "itcm", addr |-> 1, len |-> SurfW * SurfH]
  /\ ctx.mask_tex # NULL
  /\ ctx.mask_tex.data.bytes[0] = 255
  /\ ctx.src_tex # NULL
  /\ ctx.src_tex.data.bytes[0] = 128

C31_SynthesizedMaskMatchesDestination ==
  [][(/\ Returns
      /\ cmd'.op \in {NEMA_OP_FILL_RECT, NEMA_OP_BLIT}
      /\ HasBit(ctx.blending_mode, NEMA_BL_OPA)
      /\ ctx.mask_tex = NULL) =>
       LET opacity == Chan(ctx.const_color, 3)
           dest == ctx.dest_tex
           pitch == 4 * ((dest.width + 3) \div 4)
           mask == blend_opacity_if_needed(DS, ctx).ctx.mask_tex
       IN  /\ mask # NULL
           /\ mask.format = PIXMAN_a8
           /\ mask.width = dest.width
           /\ mask.height = dest.height
           /\ mask.stride = pitch
           /\ DOMAIN mask.data.bytes = 0 .. pitch * dest.height - 1
           /\ \A k \in DOMAIN mask.data.bytes : mask.data.bytes[k] = opacity
           /\ ctx'.mask_tex = NULL
           /\ unreleased'.mask = unreleased.mask]_vars

(***************************************************************************)
(* C32.  FILL_RECT(x, y, w, h, color) changes only destination pixels that *)
(* lie inside the rectangle [x, x+w) x [y, y+h), inside the current clip   *)
(* rectangle (the x, y, w, h of the last SET_CLIP) and inside the          *)
(* destination; every other pixel of the destination keeps its value.      *)
(***************************************************************************)
C32_FillRectStaysInsideRectAndClip ==
  [][(Returns /\ cmd'.op = NEMA_OP_FILL_RECT) =>
       LET dest == ctx.dest_tex
           row == dest.stride \div 4
           clip == nema_clip_region
           Inside(px, py) ==
             /\ px >= cmd'.int_a /\ px < cmd'.int_a + cmd'.u_int_a
             /\ py >= cmd'.int_b /\ py < cmd'.int_b + cmd'.u_int_b
             /\ px >= clip.x /\ px < clip.x + clip.w
             /\ py >= clip.y /\ py < clip.y + clip.h
             /\ InBounds(dest, px, py)
       IN  \A k \in DOMAIN fb :
             fb'[k] # fb[k] => Inside(k % row, k \div row)]_vars

(***************************************************************************)
(* C33.  A BLIT dispatched with a destination bound, the clip set and      *)
(* consistent mask and opacity flags faults before any destination pixel   *)
(* is written when no source is bound; with a source bound it returns and  *)
(* has composited the source over the destination from the origin across   *)
(* the destination's full width and height: every pixel of the destination *)
(* inside the compositor's clip region is the source pixel at the same     *)
(* coordinates, through the mask, over what was there, and every other     *)
(* pixel is unchanged, whatever the record's coordinate fields hold.       *)
(***************************************************************************)
C33_BlitCoversDestination ==
  [][(/\ Dispatches
      /\ cmd'.op = NEMA_OP_BLIT
      /\ validate_ctx(DS, ctx)) =>
       IF ctx.src_tex = NULL
       THEN pc' = "exited" /\ fb' = fb
       ELSE LET dest == ctx.dest_tex
                row == dest.stride \div 4
                mask == blend_opacity_if_needed(DS, ctx).ctx.mask_tex
                Painted(x, y) == /\ InBounds(dest, x, y)
                                 /\ RegionContains(pixman_clip_region, x, y)
                Over(x, y, d) == PixOver(PixIn(SamplePixel(ctx.src_tex, x, y),
                                               SampleMask(mask, x, y)), d)
            IN  /\ pc' = "process_cl"
                /\ \A k \in DOMAIN fb :
                     fb'[k] = IF Painted(k % row, k \div row)
                              THEN Over(k % row, k \div row, fb[k])
                              ELSE fb[k]]_vars

(***************************************************************************)
(* C34.  At every record boundary of a submission the compositor's and the *)
(* vector back end's view of the destination are bound together: dest_tex  *)
(* is non-null if and only if dest_surface is non-null, and when they are  *)
(* bound they refer to the same mapped memory with the same width, height  *)
(* and stride.                                                             *)
(***************************************************************************)
C34_DestinationViewsBoundTogether ==
  pc = "process_cl" =>
    /\ ctx.dest_tex # NULL <=> ctx.dest_surface # NULL
    /\ ctx.dest_tex # NULL =>
         /\ ctx.dest_surface.data = ctx.dest_tex.data
         /\ ctx.dest_surface.width = ctx.dest_tex.width
         /\ ctx.dest_surface.height = ctx.dest_tex.height
         /\ ctx.dest_surface.stride = ctx.dest_tex.stride

(***************************************************************************)
(* C35.  After every SET_CLIP(x, y, w, h), whatever 32-bit values its      *)
(* fields hold, the clip of the compositor back end (the 16-bit region)    *)
(* and the clip of the vector back end (the 32-bit x, y, w, h) denote the  *)
(* same rectangle: the region is the box from (x, y) to (x + w, y + h),    *)
(* and it is empty exactly when w or h is 0.                               *)
(***************************************************************************)
C35_BothBackendsClipAlike ==
  has_clip_set =>
    LET r == nema_clip_region
    IN  IF r.w # 0 /\ r.h # 0
        THEN pixman_clip_region =
               [x1 |-> r.x, y1 |-> r.y, x2 |-> r.x + r.w, y2 |-> r.y + r.h]
        ELSE pixman_clip_region = EmptyRegion

(***************************************************************************)
(* C36.  A BIND_TEX for the mask role with a declared stride s that is no  *)
(* multiple of 4 and a height h acquires a mask whose recorded row pitch p *)
(* is the smallest multiple of 4 greater than s, whose recorded height is  *)
(* h, and whose padded buffer holds exactly h rows of p bytes: the 16-bit  *)
(* parameters of the padding helper do not make the size allocated         *)
(* disagree with the pitch and height recorded.                            *)
(***************************************************************************)
C36_PaddedBufferHoldsRecordedRows ==
  [][(/\ Returns
      /\ cmd'.op = NEMA_OP_BIND_TEX
      /\ cmd'.u_int_8_a = NEMA_TEX3
      /\ cmd'.int_a % 4 # 0) =>
       LET m == ctx'.mask_tex
           s == cmd'.int_a
           h == cmd'.u_int_b
       IN  /\ m # NULL
           /\ m.stride = 4 * ((s \div 4) + 1)
           /\ m.height = h
           /\ DOMAIN m.data.bytes = 0 .. h * m.stride - 1]_vars

(***************************************************************************)
(* Vocabulary of the display device's properties.                          *)
(***************************************************************************)
\* the step calls qemu_irq_raise on the update-complete line
DispRaises == ram_disp'.raises # ram_disp.raises

(***************************************************************************)
(* C37.  In the display device the update-complete interrupt is raised     *)
(* only by a repaint callback that runs while an update request is pending *)
(* (is_updating), and that callback raises it once and ends the request;   *)
(* the raises never outnumber the accepted requests; a write of 1 to       *)
(* offset 1 while a request is pending changes nothing of the device and   *)
(* maps no surface; and the line goes down only in a write of 0 to         *)
(* offset 1.                                                               *)
(***************************************************************************)
C37_RaiseOncePerAcceptedRequest ==
  [][/\ DispRaises =>
          /\ ram_disp'.access.kind = "gfx_update"
          /\ ram_disp.is_updating
          /\ ~ram_disp'.is_updating
          /\ ram_disp'.raises = ram_disp.raises + 1
          /\ ram_disp'.update_complete_irq = 1
     /\ ram_disp'.update_complete_irq > ram_disp.update_complete_irq => DispRaises
     /\ ram_disp'.raises <= ram_disp'.accepted
     /\ (/\ ram_disp'.requests # ram_disp.requests
         /\ ram_disp.is_updating) =>
          /\ ram_disp'.access =
               [kind |-> "write", addr |-> RAM_DISPLAY_WRITE_OFFSET,
                val |-> RAM_DISPLAY_WRITE_SIGNAL]
          /\ ram_disp' = [ram_disp EXCEPT !.access = ram_disp'.access,
                                          !.requests = ram_disp.requests + 1]
     /\ ram_disp'.update_complete_irq < ram_disp.update_complete_irq =>
          ram_disp'.access =
            [kind |-> "write", addr |-> RAM_DISPLAY_WRITE_OFFSET,
             val |-> RAM_DISPLAY_READY_SIGNAL]]_vars

\* two requests were answered by a raise each, a third was written while
\* the second was pending, and the guest has lowered the line since
C37_Witness ==
  /\ ram_disp.requests = 3
  /\ ram_disp.accepted = 2
  /\ ram_disp.raises = 2
  /\ ram_disp.update_complete_irq = 0

(***************************************************************************)
(* C38.  While the console keeps asking for repaints, the n-th accepted    *)
(* update request of a running device is followed by the n-th raise of the *)
(* update-complete interrupt with is_updating false again and the line     *)
(* high; and a write of 1 to offset 1 made while no request is pending is  *)
(* accepted: it makes the request pending.                                 *)
(***************************************************************************)
C38_AcceptedRequestIsAnswered ==
  /\ \A n \in 1 .. MaxUpdateRequests :
       (/\ ram_disp.pc = "running"
        /\ ram_disp.is_updating
        /\ ram_disp.accepted = n)
         ~> (/\ ~ram_disp.is_updating
             /\ ram_disp.raises = n
             /\ ram_disp.update_complete_irq = 1)
  /\ [][(/\ ram_disp'.requests # ram_disp.requests
         /\ ~ram_disp.is_updating) =>
          /\ ram_disp'.is_updating
          /\ ram_disp'.accepted = ram_disp.accepted + 1]_vars

\* a second request was accepted after the first was answered, and was
\* answered too
C38_Witness ==
  /\ ram_disp.pc = "running"
  /\ ram_disp.accepted = 2
  /\ ram_disp.raises = 2
  /\ ~ram_disp.is_updating

====
